---------------------------- MODULE Spec2Model ----------------------------
(***************************************************************************)
(* A model of zenithdb: a document store kept in one SQLite database,      *)
(* reached through pooled connections.                                     *)
(*                                                                         *)
(* The engine is modelled by what SQLite and Python's sqlite3 module do    *)
(* for the statements the code issues:                                     *)
(*   - a connection opens a transaction implicitly before INSERT, UPDATE,  *)
(*     DELETE or REPLACE and keeps it open until commit() or rollback();   *)
(*   - at most one connection holds the write transaction; its changes     *)
(*     are seen by that connection only, until it commits;                 *)
(*   - a failing statement undoes itself only: the rows an executemany     *)
(*     wrote before the failing row stay in the open transaction;          *)
(*   - executescript commits the open transaction before it runs.          *)
(* A caller that needs the write lock while another connection holds it    *)
(* waits for it: its step is enabled once the lock is free.                *)
(***************************************************************************)
EXTENDS Integers, Sequences, FiniteSets, TLC

VARIABLES
    committed,   \* the database as committed: [docs, meta, phys]
    writer,      \* the connection that holds the open write transaction, or NoConn
    work,        \* the writer's view of the database (= committed when no writer)
    validator,   \* Collection.validator of each collection object
    last,        \* the last completed call: its arguments and its result
    pc,          \* SpecConc: the position of each thread in its call
    bo,          \* SpecConc: the BulkOperations object of each thread
    held,        \* SpecConc: the connections checked out of the pool
    seen,        \* SpecConc: the rows the reader read last
    subscribers  \* SpecEmit: Emitter._subscribers, the callbacks in subscription order

vars == <<committed, writer, work, validator, last, pc, bo, held, seen, subscribers>>

-----------------------------------------------------------------------------
(* JSON values, as json.loads returns them *)

JNull == [t |-> "null"]
JStr(s) == [t |-> "str", s |-> s]
JNum(n) == [t |-> "num", n |-> n]
JList(l) == [t |-> "list", l |-> l]
JMap(m) == [t |-> "map", m |-> m]

\* d[k] = v on a dict
Put(f, k, v) == [y \in DOMAIN f \cup {k} |-> IF y = k THEN v ELSE f[y]]

EmptyMap == [y \in {} |-> JNull]

-----------------------------------------------------------------------------
(* Strings as the engine's text functions see them: their characters *)

Chars(s) ==
    CASE s = "" -> <<>>
      [] s = "[]" -> <<"[", "]">>
      [] s = "ab" -> <<"a", "b">>
      [] s = "AB" -> <<"A", "B">>
      [] s = "tech" -> <<"t", "e", "c", "h">>
      [] s = "TECH" -> <<"T", "E", "C", "H">>
      [] s = "ec" -> <<"e", "c">>
      [] OTHER -> <<s>>

\* the decimal digits of an integer
RECURSIVE DigitChars(_)
DigitChars(n) ==
    IF n < 0 THEN <<"-">> \o DigitChars(0 - n)
    ELSE IF n < 10 THEN <<ToString(n)>>
    ELSE DigitChars(n \div 10) \o <<ToString(n % 10)>>

-----------------------------------------------------------------------------
(* The engine's JSON functions on a stored payload.  A path is the list of *)
(* the segments of a dotted field: '$.a.b' is <<"a", "b">>.                *)

Missing == [t |-> "missing"]

SqlNull == [t |-> "sqlnull"]
SqlText(c) == [t |-> "text", c |-> c]
SqlInt(n) == [t |-> "int", n |-> n]

RECURSIVE Lookup(_, _)
Lookup(v, path) ==
    IF path = <<>> THEN v
    ELSE IF v.t = "map" /\ Head(path) \in DOMAIN v.m
         THEN Lookup(v.m[Head(path)], Tail(path))
         ELSE Missing

RECURSIVE JoinSeqs(_, _)
JoinSeqs(parts, sep) ==
    IF parts = <<>> THEN <<>>
    ELSE IF Len(parts) = 1 THEN parts[1]
    ELSE parts[1] \o sep \o JoinSeqs(Tail(parts), sep)

\* the minified JSON text the engine returns for a value
RECURSIVE JsonText(_)
RECURSIVE MapTexts(_, _)
JsonText(v) ==
    CASE v.t = "null" -> <<"n", "u", "l", "l">>
      [] v.t = "str" -> <<"\"">> \o Chars(v.s) \o <<"\"">>
      [] v.t = "num" -> DigitChars(v.n)
      [] v.t = "list" ->
            <<"[">> \o JoinSeqs([i \in 1..Len(v.l) |-> JsonText(v.l[i])], <<",">>) \o <<"]">>
      [] v.t = "map" ->
            <<"{">> \o JoinSeqs(MapTexts(v.m, DOMAIN v.m), <<",">>) \o <<"}">>

\* the "key":value members of a mapping (the inputs extract mappings of at
\* most one key, so the order of the keys does not show)
MapTexts(m, keys) ==
    IF keys = {} THEN <<>>
    ELSE LET k == CHOOSE x \in keys : TRUE IN
         <<(<<"\"">> \o Chars(k) \o <<"\"", ":">> \o JsonText(m[k]))>>
            \o MapTexts(m, keys \ {k})

\* json_extract(data, '$.path')
JsonExtract(data, path) ==
    LET v == Lookup(data, path) IN
    CASE v.t \in {"missing", "null"} -> SqlNull
      [] v.t = "str" -> SqlText(Chars(v.s))
      [] v.t = "num" -> SqlInt(v.n)
      [] OTHER -> SqlText(JsonText(v))

\* json_type(data, '$.path'): NULL when the path does not exist
JsonType(data, path) ==
    LET v == Lookup(data, path) IN
    IF v.t = "missing" THEN SqlNull ELSE SqlText(<<v.t>>)

-----------------------------------------------------------------------------
(* The database: table documents (id is its primary key), table indexes    *)
(* and the engine's physical indexes.                                      *)

NoConn == "none"
Conns == {"c1", "c2"}

Collections == {"users", "orders"}

\* the collection of the validator and of the bulk calls
BulkCollections == {"users"}

\* an index name is the list of the parts its underscores separate
IdxCollection == <<"idx", "collection">>
IdxCollectionId == <<"idx", "collection", "id">>

\* the two indexes _init_db creates on documents(collection [, id])
BuiltinIndex == [collection |-> "", fields |-> <<>>, unique |-> FALSE]

\* the database after _init_db: no rows; docs maps an id to its row, meta is
\* table indexes in row order, phys maps the name of an engine index to
\* what it indexes
EmptyDb ==
    [docs |-> <<>>, meta |-> <<>>,
     phys |-> [n \in {IdxCollection, IdxCollectionId} |-> BuiltinIndex]]

Row(id, collection, data) == [id |-> id, collection |-> collection, data |-> data]

\* the key of a row in a physical index: its extracted fields
IndexKey(ix, data) == [i \in 1..Len(ix.fields) |-> JsonExtract(data, ix.fields[i])]

\* a row breaks a UNIQUE index when a row of the index has the same key;
\* NULLs never collide
UniqueViolation(db, r) ==
    \E n \in DOMAIN db.phys :
        LET ix == db.phys[n] IN
        /\ ix.unique
        /\ r.collection = ix.collection
        /\ \A i \in 1..Len(ix.fields) : IndexKey(ix, r.data)[i] # SqlNull
        /\ \E id \in DOMAIN db.docs :
              /\ db.docs[id].collection = ix.collection
              /\ IndexKey(ix, db.docs[id].data) = IndexKey(ix, r.data)

\* INSERT INTO documents (id, collection, data) VALUES (?, ?, ?)
CanInsert(db, r) == r.id \notin DOMAIN db.docs /\ ~UniqueViolation(db, r)

InsertRow(db, r) ==
    [db EXCEPT !.docs = Put(db.docs, r.id, [collection |-> r.collection, data |-> r.data])]

\* cursor.executemany: row after row, stopping at the first that fails
RECURSIVE ExecuteMany(_, _)
ExecuteMany(db, rows) ==
    IF rows = <<>> THEN [db |-> db, ok |-> TRUE]
    ELSE IF CanInsert(db, Head(rows))
         THEN ExecuteMany(InsertRow(db, Head(rows)), Tail(rows))
         ELSE [db |-> db, ok |-> FALSE]

-----------------------------------------------------------------------------
(* Connections and transactions.  e = [committed, writer, work].           *)

Engine(c, w, k) == [committed |-> c, writer |-> w, work |-> k]

\* what connection c reads
View(e, c) == IF e.writer = c THEN e.work ELSE e.committed

\* c can write: it holds the write transaction or nobody does
CanWrite(e, c) == e.writer \in {NoConn, c}

\* the transaction c opens (implicitly or by BEGIN IMMEDIATE) for a write
BeginWrite(e, c) == Engine(e.committed, c, View(e, c))

\* connection.commit()
Commit(e, c) ==
    IF e.writer = c THEN Engine(e.work, NoConn, e.work) ELSE e

\* connection.rollback()
Rollback(e, c) ==
    IF e.writer = c THEN Engine(e.committed, NoConn, e.committed) ELSE e

-----------------------------------------------------------------------------
(* BulkOperations (operations.py) *)

BATCH_SIZE == 2

GenIdSeq == <<"g1", "g2", "g3">>

UsedIds(e) == DOMAIN e.committed.docs \cup DOMAIN e.work.docs

\* [str(uuid.uuid4()) for _ in documents]: n identifiers no document has
Uuids(e, n) == SubSeq(SelectSeq(GenIdSeq, LAMBDA g : g \notin UsedIds(e)), 1, n)

CanUuids(e, n) == Len(SelectSeq(GenIdSeq, LAMBDA g : g \notin UsedIds(e))) >= n

\* for doc, doc_id in zip(documents, doc_ids): doc['_id'] = doc_id
\* (documents are references into the caller's heap)
RECURSIVE StampAll(_, _, _)
StampAll(heap, objs, ids) ==
    IF objs = <<>> \/ ids = <<>> THEN heap
    ELSE StampAll([heap EXCEPT ![Head(objs)] = JMap(Put(@.m, "_id", JStr(Head(ids))))],
                  Tail(objs), Tail(ids))

\* values = [(doc_id, collection, json.dumps(doc)) for ...]
Values(collection, heap, objs, ids) ==
    [i \in 1..Len(objs) |-> Row(ids[i], collection, heap[objs[i]])]

\* for i in range(0, len(values), BATCH_SIZE): cursor.executemany(batch)
RECURSIVE InsertBatches(_, _)
InsertBatches(db, values) ==
    IF values = <<>> THEN [db |-> db, ok |-> TRUE]
    ELSE LET n == IF Len(values) < BATCH_SIZE THEN Len(values) ELSE BATCH_SIZE
             r == ExecuteMany(db, SubSeq(values, 1, n))
         IN IF r.ok THEN InsertBatches(r.db, SubSeq(values, n + 1, Len(values)))
            ELSE r

\* (mutant) the except branch without its rollback
BulkInsertFailedKeepsRows(e, c, active) == e

\* the except branch of bulk_insert: roll back unless a with-block is active
BulkInsertFailed(e, c, active) == IF ~active THEN Rollback(e, c) ELSE e

\* BulkOperations.bulk_insert on connection c; given = doc_ids is not None.
\* Nothing commits here.
bulk_insert(e, c, active, collection, objs, heap, given, doc_ids) ==
    LET ids == IF given THEN doc_ids ELSE Uuids(e, Len(objs)) IN
    IF Len(ids) # Len(objs)
    THEN [e |-> e, res |-> "ValueError", ids |-> <<>>, heap |-> heap]
    ELSE LET heap2 == StampAll(heap, objs, ids)
             values == Values(collection, heap2, objs, ids)
             e1 == IF values = <<>> THEN e ELSE BeginWrite(e, c)
             r == InsertBatches(View(e1, c), values)
             e2 == IF values = <<>> THEN e ELSE [e1 EXCEPT !.work = r.db]
         IN IF r.ok
            THEN [e |-> e2, res |-> "ok", ids |-> ids, heap |-> heap2]
            ELSE [e |-> BulkInsertFailed(e2, c, active), res |-> "IntegrityError",
                  ids |-> <<>>, heap |-> heap2]

\* BulkOperations.__enter__: BEGIN IMMEDIATE; the error of a connection that is
\* already within a transaction is swallowed and the manager stays inactive
Enter(e, c) ==
    IF e.writer = c THEN [e |-> e, active |-> FALSE]
    ELSE [e |-> BeginWrite(e, c), active |-> TRUE]

\* BulkOperations.__exit__
Exit(e, c, active, raised) ==
    IF ~raised /\ active THEN Commit(e, c)
    ELSE IF active THEN Rollback(e, c)
    ELSE e

\* with BulkOperations(c) as ops: ops.bulk_insert(collection, documents, doc_ids)
WithBulkInsert(e, c, collection, objs, heap, given, doc_ids) ==
    LET en == Enter(e, c)
        r == bulk_insert(en.e, c, en.active, collection, objs, heap, given, doc_ids)
    IN [r EXCEPT !.e = Exit(r.e, c, en.active, r.res # "ok")]

-----------------------------------------------------------------------------
(* Queries.  A condition is [field, op, value]; a field is the list of the *)
(* segments of its dotted name.                                            *)

Lower(ch) ==
    CASE ch = "A" -> "a" [] ch = "B" -> "b" [] ch = "T" -> "t" [] ch = "E" -> "e"
      [] ch = "C" -> "c" [] ch = "H" -> "h" [] OTHER -> ch

\* text LIKE pattern: % is any run of characters, _ any one character,
\* letters match without regard to case
RECURSIVE Like(_, _)
Like(text, pattern) ==
    IF pattern = <<>> THEN text = <<>>
    ELSE IF Head(pattern) = "%"
         THEN Like(text, Tail(pattern)) \/ (text # <<>> /\ Like(Tail(text), pattern))
         ELSE /\ text # <<>>
              /\ (Head(pattern) = "_" \/ Lower(Head(pattern)) = Lower(Head(text)))
              /\ Like(Tail(text), Tail(pattern))

\* a Python value bound as a statement parameter
Param(v) ==
    CASE v.t = "str" -> SqlText(Chars(v.s))
      [] v.t = "num" -> SqlInt(v.n)
      [] OTHER -> SqlNull

\* f"%{value}%"
ContainsPattern(v) ==
    <<"%">> \o (IF v.t = "num" THEN DigitChars(v.n) ELSE Chars(v.s)) \o <<"%">>

\* the text a value is compared as by LIKE
AsText(x) == IF x.t = "int" THEN DigitChars(x.n) ELSE x.c

\* x LIKE pattern is true (NULL LIKE pattern is NULL)
SqlLike(x, pattern) == x # SqlNull /\ Like(AsText(x), pattern)

\* x = y is true: both not NULL, same storage class, same value
SqlEq(x, y) == x # SqlNull /\ y # SqlNull /\ x = y

\* x < y is true: numbers before text; numbers by value (two texts are not
\* ordered here: the inputs compare numbers)
SqlLt(x, y) ==
    /\ x # SqlNull /\ y # SqlNull
    /\ \/ x.t = "int" /\ y.t = "text"
       \/ x.t = "int" /\ y.t = "int" /\ x.n < y.n

\* (mutant) the condition without its json_type half
NullConditionExtractOnly(data, field) == JsonExtract(data, field) = SqlNull

\* the condition value IS None of execute_query
NullCondition(data, field) ==
    JsonExtract(data, field) = SqlNull /\ JsonType(data, field) # SqlNull

\* the WHERE term execute_query builds for one condition, on a row
CondHolds(id, data, cond) ==
    LET x == JsonExtract(data, cond.field)
        p == Param(cond.value)
    IN IF cond.value = JNull THEN NullCondition(data, cond.field)
       ELSE CASE cond.op = "CONTAINS" -> SqlLike(x, ContainsPattern(cond.value))
              [] cond.op = "EQ" ->
                    IF cond.field = <<"_id">> THEN SqlEq(SqlText(Chars(id)), p)
                    ELSE SqlEq(x, p)
              [] cond.op = "GT" -> SqlLt(p, x)
              [] cond.op = "GTE" -> SqlLt(p, x) \/ SqlEq(x, p)
              [] cond.op = "LT" -> SqlLt(x, p)
              [] cond.op = "LTE" -> SqlLt(x, p) \/ SqlEq(x, p)
              [] cond.op = "NE" -> x # SqlNull /\ p # SqlNull /\ x # p
              [] OTHER -> FALSE

\* op_map[op] raises KeyError for an operator execute_query has no SQL for
QueryRaises(conds) ==
    \E i \in 1..Len(conds) :
        /\ conds[i].value # JNull
        /\ conds[i].op \notin {"CONTAINS", "EQ", "GT", "GTE", "LT", "LTE", "NE"}

\* Database.execute_query: the payloads of the rows of the collection on
\* which every condition holds
execute_query(db, collection, conds) ==
    { db.docs[id].data : id \in
        { i \in DOMAIN db.docs :
            /\ db.docs[i].collection = collection
            /\ \A k \in 1..Len(conds) : CondHolds(i, db.docs[i].data, conds[k]) } }

-----------------------------------------------------------------------------
(* Collection.find and Collection.find_one on a dictionary query.  A query *)
(* is the list of its items in the dictionary's order; an item is a field  *)
(* with a plain value, or with a dictionary of (operator, value) pairs.    *)

Plain(field, value) == [field |-> field, plain |-> TRUE, value |-> value, ops |-> <<>>]
Ops(field, ops) == [field |-> field, plain |-> FALSE, value |-> JNull, ops |-> ops]

Cond(field, op, value) == [field |-> field, op |-> op, value |-> value]

\* op.lstrip("$")
LStrip(token) ==
    CASE token \in {"$gt", "gt"} -> "gt"
      [] token \in {"$gte", "gte"} -> "gte"
      [] token \in {"$lt", "lt"} -> "lt"
      [] token \in {"$lte", "lte"} -> "lte"
      [] token \in {"$ne", "ne"} -> "ne"
      [] token \in {"$in", "in"} -> "in"
      [] token \in {"$contains", "contains"} -> "contains"
      [] OTHER -> token

\* the if/elif chain of Collection.find: the operators it knows
FindOperator(op) ==
    CASE op = "gt" -> "GT" [] op = "gte" -> "GTE" [] op = "lt" -> "LT"
      [] op = "lte" -> "LTE" [] op = "ne" -> "NE" [] op = "in" -> "IN"
      [] op = "contains" -> "CONTAINS" [] OTHER -> "none"

\* the conditions Collection.find adds for one item: an operator it does
\* not know adds nothing
RECURSIVE FindItemConds(_, _)
FindItemConds(field, ops) ==
    IF ops = <<>> THEN <<>>
    ELSE LET op == FindOperator(LStrip(Head(ops)[1])) IN
         (IF op = "none" THEN <<>> ELSE <<Cond(field, op, Head(ops)[2])>>)
            \o FindItemConds(field, Tail(ops))

RECURSIVE FindConds(_)
FindConds(items) ==
    IF items = <<>> THEN <<>>
    ELSE LET it == Head(items) IN
         (IF it.plain THEN <<Cond(it.field, "EQ", it.value)>>
          ELSE FindItemConds(it.field, it.ops))
            \o FindConds(Tail(items))

\* Database.list_indexes(collection): the rows of table indexes, in order
list_indexes(db, collection) ==
    IF collection = "" THEN db.meta
    ELSE SelectSeq(db.meta, LAMBDA row : row.collection = collection)

InSeq(x, sq) == \E i \in 1..Len(sq) : sq[i] = x

QueryFields(items) == [i \in 1..Len(items) |-> items[i].field]

\* (mutant) the loop without "field not in sorted_fields"
RECURSIVE AddIndexFieldsRepeat(_, _, _)
AddIndexFieldsRepeat(sorted, fields, qfields) ==
    IF fields = <<>> THEN sorted
    ELSE AddIndexFieldsRepeat(
            IF InSeq(Head(fields), qfields) THEN Append(sorted, Head(fields)) ELSE sorted,
            Tail(fields), qfields)

\* for field in index_fields: if field in query and field not in sorted_fields
RECURSIVE AddIndexFields(_, _, _)
AddIndexFields(sorted, fields, qfields) ==
    IF fields = <<>> THEN sorted
    ELSE AddIndexFields(
            IF InSeq(Head(fields), qfields) /\ ~InSeq(Head(fields), sorted)
            THEN Append(sorted, Head(fields)) ELSE sorted,
            Tail(fields), qfields)

RECURSIVE SortByIndexes(_, _, _)
SortByIndexes(sorted, indexes, qfields) ==
    IF indexes = <<>> THEN sorted
    ELSE SortByIndexes(AddIndexFields(sorted, Head(indexes).fields, qfields),
                       Tail(indexes), qfields)

\* sorted_fields of Collection.find
SortedFields(indexes, items) ==
    LET qfields == QueryFields(items)
        first == SortByIndexes(<<>>, indexes, qfields)
    IN first \o SelectSeq(qfields, LAMBDA f : ~InSeq(f, first))

ItemOf(items, field) == items[CHOOSE i \in 1..Len(items) : items[i].field = field]

\* Query.execute(): what Database.execute_query returns for the query
QueryExecute(db, collection, conds) == execute_query(db, collection, conds)

\* len(query) == 1 and "*" in query and isinstance(query["*"], dict)
\* and "$contains" in query["*"]
IsFullText(items) ==
    /\ Len(items) = 1
    /\ items[1].field = <<"*">>
    /\ ~items[1].plain
    /\ \E i \in 1..Len(items[1].ops) : items[1].ops[i][1] = "$contains"

\* query["*"]["$contains"]
SearchTerm(items) ==
    LET ops == items[1].ops IN
    ops[CHOOSE i \in 1..Len(ops) : ops[i][1] = "$contains"][2]

\* term.lower() in text.lower()
ContainsText(text, term) ==
    \E i \in 0..(Len(text) - Len(term)) :
        \A j \in 1..Len(term) : Lower(text[i + j]) = Lower(term[j])

\* (mutant) a search that does not go into mappings and sequences
SearchValueFlat(value, term) ==
    CASE value.t = "str" -> ContainsText(Chars(value.s), Chars(term.s))
      [] value.t = "num" -> ContainsText(DigitChars(value.n), Chars(term.s))
      [] OTHER -> FALSE

\* search_value of Collection.find
RECURSIVE SearchValue(_, _)
SearchValue(value, term) ==
    CASE value.t = "str" -> ContainsText(Chars(value.s), Chars(term.s))
      [] value.t = "num" -> ContainsText(DigitChars(value.n), Chars(term.s))
      [] value.t = "map" -> \E k \in DOMAIN value.m : SearchValue(value.m[k], term)
      [] value.t = "list" -> \E i \in 1..Len(value.l) : SearchValue(value.l[i], term)
      [] OTHER -> FALSE

\* a string or a number is somewhere in the value
RECURSIVE HasText(_)
HasText(value) ==
    CASE value.t \in {"str", "num"} -> TRUE
      [] value.t = "map" -> \E k \in DOMAIN value.m : HasText(value.m[k])
      [] value.t = "list" -> \E i \in 1..Len(value.l) : HasText(value.l[i])
      [] OTHER -> FALSE

\* the full-text branch of Collection.find: every row of the collection
\* that the query without conditions returns is searched
FindFullText(db, collection, items) ==
    { doc \in QueryExecute(db, collection, <<>>) :
        \E k \in DOMAIN doc.m : SearchValue(doc.m[k], SearchTerm(items)) }

\* term.lower() fails for a term that is not a str, at the first string or
\* number that is searched
FullTextRaises(db, collection, items) ==
    /\ SearchTerm(items).t # "str"
    /\ \E doc \in QueryExecute(db, collection, <<>>) : HasText(doc)

\* the regular branch of Collection.find
FindRegular(db, collection, items) ==
    LET fields == SortedFields(list_indexes(db, collection), items)
        sorted == [i \in 1..Len(fields) |-> ItemOf(items, fields[i])]
    IN QueryExecute(db, collection, FindConds(sorted))

\* Collection.find(query) on a dictionary query, read through a database view:
\* every matching document (the LIMIT of execute_query is in FindResults)
Find(db, collection, items) ==
    IF IsFullText(items) THEN FindFullText(db, collection, items)
    ELSE FindRegular(db, collection, items)

FindRaises(db, collection, items) ==
    IF IsFullText(items) THEN FullTextRaises(db, collection, items)
    ELSE QueryRaises(FindConds(items))

\* LIMIT 10000 of execute_query, in documents
ResultCap == 6

\* the identifiers of the documents a store is made of, in the order in
\* which they were stored (the order of their rowids)
StoredIdSeq == <<"a", "b", "c", "d", "e", "f", "g", "h">>

\* the rows in the order of a table scan
RowidOrder(db) == SelectSeq(StoredIdSeq, LAMBDA id : id \in DOMAIN db.docs)

\* x sorts before y in an index: NULL first, then numbers by value
ValueLess(x, y) == x # y /\ (x = SqlNull \/ SqlLt(x, y))

\* the key of d1 sorts before the key of d2 in an index on the fields
RECURSIVE KeyLess(_, _, _)
KeyLess(d1, d2, fields) ==
    IF fields = <<>> THEN FALSE
    ELSE LET x == JsonExtract(d1, Head(fields))
             y == JsonExtract(d2, Head(fields))
         IN IF x = y THEN KeyLess(d1, d2, Tail(fields)) ELSE ValueLess(x, y)

\* id put into the sorted list behind every entry that does not sort after it
RECURSIVE KeyInsert(_, _, _, _)
KeyInsert(db, fields, sorted, id) ==
    IF sorted = <<>> THEN <<id>>
    ELSE IF KeyLess(db.docs[id].data, db.docs[Head(sorted)].data, fields)
         THEN <<id>> \o sorted
         ELSE <<Head(sorted)>> \o KeyInsert(db, fields, Tail(sorted), id)

RECURSIVE KeySort(_, _, _)
KeySort(db, fields, ids) ==
    IF ids = <<>> THEN <<>>
    ELSE KeyInsert(db, fields, KeySort(db, fields, SubSeq(ids, 1, Len(ids) - 1)),
                   ids[Len(ids)])

\* the rows in the order of a scan of the index: by key, then by rowid
IndexOrder(db, fields) == KeySort(db, fields, RowidOrder(db))

\* an index of the collection the engine can search for the WHERE clause:
\* its first field is compared with a value
UsableIndexes(db, collection, conds) ==
    { n \in DOMAIN db.phys :
        /\ db.phys[n].collection = collection
        /\ db.phys[n].fields # <<>>
        /\ \E i \in 1..Len(conds) :
              /\ conds[i].field = Head(db.phys[n].fields)
              /\ conds[i].value # JNull
              /\ conds[i].op \in {"EQ", "GT", "GTE", "LT", "LTE"} }

\* the orders in which the engine can return the rows of a SELECT without
\* ORDER BY: a scan of the table, or of an index it can search
ScanOrders(db, collection, conds) ==
    {RowidOrder(db)}
    \cup { IndexOrder(db, db.phys[n].fields) : n \in UsableIndexes(db, collection, conds) }

MatchingIds(db, collection, conds) ==
    { i \in DOMAIN db.docs :
        /\ db.docs[i].collection = collection
        /\ \A k \in 1..Len(conds) : CondHolds(i, db.docs[i].data, conds[k]) }

\* execute_query with its LIMIT: the results the engine can return.  As long
\* as no more than ResultCap rows match there is one, every matching row;
\* beyond that it is the first ResultCap matching rows of a scan order (the
\* stores whose queries reach the limit are made of StoredIdSeq)
ExecuteLimited(db, collection, conds) ==
    LET ids == MatchingIds(db, collection, conds) IN
    IF Cardinality(ids) <= ResultCap THEN {execute_query(db, collection, conds)}
    ELSE { LET got == SubSeq(SelectSeq(order, LAMBDA i : i \in ids), 1, ResultCap)
           IN { db.docs[got[k]].data : k \in 1..Len(got) } :
           order \in ScanOrders(db, collection, conds) }

\* the results Collection.find(query) can return
FindResults(db, collection, items) ==
    IF IsFullText(items)
    THEN { { doc \in R : \E k \in DOMAIN doc.m : SearchValue(doc.m[k], SearchTerm(items)) } :
           R \in ExecuteLimited(db, collection, <<>>) }
    ELSE LET fields == SortedFields(list_indexes(db, collection), items)
             sorted == [i \in 1..Len(fields) |-> ItemOf(items, fields[i])]
         IN ExecuteLimited(db, collection, FindConds(sorted))

\* the if/elif chain of Collection.find_one: every operator it does not
\* name becomes an equality
FindOneOperator(op) ==
    CASE op = "gte" -> "GTE" [] op = "lte" -> "LTE" [] op = "in" -> "IN"
      [] op = "contains" -> "CONTAINS" [] OTHER -> "EQ"

RECURSIVE FindOneItemConds(_, _)
FindOneItemConds(field, ops) ==
    IF ops = <<>> THEN <<>>
    ELSE <<Cond(field, FindOneOperator(LStrip(Head(ops)[1])), Head(ops)[2])>>
            \o FindOneItemConds(field, Tail(ops))

RECURSIVE FindOneConds(_)
FindOneConds(items) ==
    IF items = <<>> THEN <<>>
    ELSE LET it == Head(items) IN
         (IF it.plain THEN <<Cond(it.field, "EQ", it.value)>>
          ELSE FindOneItemConds(it.field, it.ops))
            \o FindOneConds(Tail(items))

None == [t |-> "None"]

\* Collection.find_one(query): the results it may return: a row of the
\* query with LIMIT 1, or None when there is none
FindOne(db, collection, items) ==
    LET rows == QueryExecute(db, collection, FindOneConds(items)) IN
    IF rows = {} THEN {None} ELSE rows

-----------------------------------------------------------------------------
(* The callers' inputs *)

Threads == {"t1", "t2", "t3"}

UserIds == {"a", "b", "c"}

Objs == {"o1", "o2", "o3"}

Doc(age) == JMap([k \in {"age"} |-> JNum(age)])

Heap(d1, d2, d3) == [o \in Objs |-> CASE o = "o1" -> d1 [] o = "o2" -> d2 [] OTHER -> d3]

DocList(objs, heap) == [objs |-> objs, heap |-> heap]

\* the document lists of the bulk calls: valid and invalid ages, the same
\* object twice, more documents than one batch holds
DocLists ==
    { DocList(<<"o1">>, Heap(Doc(1), Doc(1), Doc(1))),
      DocList(<<"o1">>, Heap(Doc(-1), Doc(1), Doc(1))),
      DocList(<<"o1", "o2">>, Heap(Doc(1), Doc(-1), Doc(1))),
      DocList(<<"o1", "o1">>, Heap(Doc(1), Doc(1), Doc(1))),
      DocList(<<"o1", "o2", "o3">>, Heap(Doc(1), Doc(1), Doc(1))) }

SingleDocs == { l \in DocLists : Len(l.objs) = 1 }

\* the doc_ids lists of the bulk calls
IdLists ==
    { <<"a">>, <<"a", "a">>, <<"a", "b">>, <<"a", "b", "a">>, <<"b", "c", "a">> }

\* an inserting call starts only while the database holds fewer rows
MaxRows == 2

Room(e, c) == Cardinality(DOMAIN View(e, c).docs) < MaxRows

\* the validator of the tests: isinstance(doc.get('age'), int) and doc['age'] >= 0
Validator(doc) ==
    /\ "age" \in DOMAIN doc.m
    /\ doc.m["age"].t = "num"
    /\ doc.m["age"].n >= 0

\* if not self.validator(doc): raise ValueError, document after document
AllValid(objs, heap) == \A i \in 1..Len(objs) : Validator(heap[objs[i]])

-----------------------------------------------------------------------------
(* The calls of one caller, each as one step *)

Eng == Engine(committed, writer, work)

\* with self.pool.get_connection() as conn: a connection that is not checked
\* out; giving it back leaves its transaction as it is
get_connection(c) == c \in Conns \ held

SetEngine(e) ==
    /\ committed' = e.committed
    /\ writer' = e.writer
    /\ work' = e.work

Call(op, c, collection, l, given, doc_ids, r) ==
    [op |-> op, conn |-> c, collection |-> collection, objs |-> l.objs, docs |-> l.heap,
     res |-> r.res, ids |-> r.ids]

Rejected(l) == [res |-> "ValidationError", ids |-> <<>>, heap |-> l.heap]

\* Collection.set_validator: the attribute is set before the metadata is
\* written; BEGIN fails on a connection that is within a transaction, and
\* the except branch rolls that transaction back
SetValidatorOn(e, c) == IF e.writer = c THEN Rollback(e, c) ELSE e

SetValidator(c, collection) ==
    /\ get_connection(c)
    /\ CanWrite(Eng, c)
    /\ validator' = [validator EXCEPT ![collection] = TRUE]
    /\ SetEngine(SetValidatorOn(Eng, c))
    /\ last' = [op |-> "set_validator", conn |-> c, collection |-> collection,
                res |-> IF writer = c THEN "OperationalError" ELSE "ok"]
    /\ UNCHANGED <<pc, bo, held, seen, subscribers>>

\* Database.insert: a BulkOperations that is not entered
DatabaseInsert(e, c, collection, l, given, doc_id) ==
    bulk_insert(e, c, FALSE, collection, l.objs, l.heap, given, <<doc_id>>)

\* Collection.insert(document, doc_id)
Insert(c, collection, l, given, doc_id) ==
    /\ given \/ doc_id = "a"
    /\ IF validator[collection] /\ ~Validator(l.heap[l.objs[1]])
       THEN /\ last' = Call("insert", NoConn, collection, l, given, <<doc_id>>, Rejected(l))
            /\ UNCHANGED <<committed, writer, work>>
       ELSE /\ get_connection(c)
            /\ CanWrite(Eng, c)
            /\ Room(Eng, c)
            /\ given \/ CanUuids(Eng, 1)
            /\ LET r == DatabaseInsert(Eng, c, collection, l, given, doc_id) IN
               /\ SetEngine(r.e)
               /\ last' = Call("insert", c, collection, l, given, <<doc_id>>, r)
    /\ UNCHANGED <<validator, pc, bo, held, seen, subscribers>>

\* (mutant) a validation loop that stops after the first document
InsertManyValidFirstOnly(collection, l) ==
    validator[collection] => Validator(l.heap[l.objs[1]])

\* the validation loop of Collection.insert_many
InsertManyValid(collection, l) == validator[collection] => AllValid(l.objs, l.heap)

\* Collection.insert_many(documents)
InsertMany(c, collection, l) ==
    /\ IF ~InsertManyValid(collection, l)
       THEN /\ last' = Call("insert_many", NoConn, collection, l, FALSE, <<>>, Rejected(l))
            /\ UNCHANGED <<committed, writer, work>>
       ELSE /\ get_connection(c)
            /\ CanWrite(Eng, c)
            /\ Room(Eng, c)
            /\ CanUuids(Eng, Len(l.objs))
            /\ LET r == WithBulkInsert(Eng, c, collection, l.objs, l.heap, FALSE, <<>>) IN
               /\ SetEngine(r.e)
               /\ last' = Call("insert_many", c, collection, l, FALSE, <<>>, r)
    /\ UNCHANGED <<validator, pc, bo, held, seen, subscribers>>

\* with db.bulk_operations() as ops: ops.bulk_insert(collection, documents, doc_ids)
BulkInsertInBlock(c, collection, l, doc_ids) ==
    /\ get_connection(c)
    /\ CanWrite(Eng, c)
    /\ Room(Eng, c)
    /\ LET r == WithBulkInsert(Eng, c, collection, l.objs, l.heap, TRUE, doc_ids) IN
       /\ SetEngine(r.e)
       /\ last' = Call("with_bulk_insert", c, collection, l, TRUE, doc_ids, r)
    /\ UNCHANGED <<validator, pc, bo, held, seen, subscribers>>

\* ops = db.bulk_operations(); ops.bulk_insert(collection, documents, doc_ids)
BulkInsertDirect(c, collection, l, doc_ids) ==
    /\ get_connection(c)
    /\ CanWrite(Eng, c)
    /\ Room(Eng, c)
    /\ LET r == bulk_insert(Eng, c, FALSE, collection, l.objs, l.heap, TRUE, doc_ids) IN
       /\ SetEngine(r.e)
       /\ last' = Call("bulk_insert", c, collection, l, TRUE, doc_ids, r)
    /\ UNCHANGED <<validator, pc, bo, held, seen, subscribers>>

NoCall == [op |-> "none", conn |-> NoConn, res |-> "ok"]

\* a thread without a BulkOperations object
NoBulk == [conn |-> NoConn, active |-> FALSE, ids |-> <<>>, todo |-> <<>>]

Init ==
    /\ committed = EmptyDb
    /\ writer = NoConn
    /\ work = EmptyDb
    /\ validator = [c \in Collections |-> FALSE]
    /\ last = NoCall
    /\ pc = [t \in Threads |-> "idle"]
    /\ bo = [t \in Threads |-> NoBulk]
    /\ held = {}
    /\ seen = {}
    /\ subscribers = <<>>

Next ==
    \/ \E c \in Conns, collection \in BulkCollections : SetValidator(c, collection)
    \/ \E c \in Conns, collection \in Collections, l \in SingleDocs,
          given \in BOOLEAN, doc_id \in UserIds :
          Insert(c, collection, l, given, doc_id)
    \/ \E c \in Conns, collection \in BulkCollections, l \in DocLists :
          InsertMany(c, collection, l)
    \/ \E c \in Conns, collection \in BulkCollections, l \in DocLists, doc_ids \in IdLists :
          BulkInsertInBlock(c, collection, l, doc_ids)
    \/ \E c \in Conns, collection \in BulkCollections, l \in DocLists, doc_ids \in IdLists :
          BulkInsertDirect(c, collection, l, doc_ids)

Spec == Init /\ [][Next]_vars

-----------------------------------------------------------------------------
(* Claims about the calls of one caller (Spec) *)

NextEng == Engine(committed', writer', work')

\* the payload of a document stamped with its identifier
Stamped(doc, id) == JMap(Put(doc.m, "_id", JStr(id)))

ById(id) == <<Plain(<<"_id">>, JStr(id))>>

\* C1: after Collection.insert(D) has returned identifier i, find_one({'_id': i})
\* returns D with '_id' set to i on every pooled connection, also on one that
\* did not perform the insert.
C1_InsertThenFetchAnyConnection ==
    (last.op = "insert" /\ last.res = "ok") =>
        \A c \in Conns :
            FindOne(View(Eng, c), last.collection, ById(last.ids[1]))
                = {Stamped(last.docs[last.objs[1]], last.ids[1])}

Distinct(sq) == \A i, j \in 1..Len(sq) : i # j => sq[i] # sq[j]

\* C2: Collection.insert_many of N documents on a collection with a validator
\* either returns N pairwise distinct new identifiers, each then found in the
\* collection, or, when the validator rejects one of the documents, raises the
\* validation error and stores no document of the call.
C2_InsertManyAllOrNothing ==
    [][ last'.op = "insert_many" =>
          IF validator[last'.collection] /\ ~AllValid(last'.objs, last'.docs)
          THEN /\ last'.res = "ValidationError"
               /\ NextEng = Eng
          ELSE /\ last'.res = "ok"
               /\ Len(last'.ids) = Len(last'.objs)
               /\ Distinct(last'.ids)
               /\ \A i \in 1..Len(last'.ids) :
                    /\ last'.ids[i] \notin UsedIds(Eng)
                    /\ Find(View(NextEng, last'.conn), last'.collection,
                            ById(last'.ids[i])) # {}
      ]_vars

\* an insert_many that the validator rejected at its second document, after
\* a valid first one
C2_Witness ==
    /\ last.op = "insert_many"
    /\ last.res = "ValidationError"
    /\ Len(last.objs) = 2
    /\ Validator(last.docs[last.objs[1]])
    /\ ~Validator(last.docs[last.objs[2]])

\* no row is in the database after the step that was not in it before
NoNewRows ==
    /\ committed' = committed
    /\ \A id \in DOMAIN work'.docs :
          id \in DOMAIN work.docs /\ work'.docs[id] = work.docs[id]

-----------------------------------------------------------------------------
(* Threads (SpecConc): one thread runs a bulk insert in a with-block, one   *)
(* a bulk delete in a with-block, one reads.  A step is one call of the     *)
(* engine; the steps of the threads interleave.                             *)

Inserter == "t1"
Deleter == "t2"
Writers == {Inserter, Deleter}
Readers == Threads \ Writers

\* the identifiers of the documents stored before the threads start
StoredIds == <<"x", "y", "z">>

Range(sq) == { sq[i] : i \in 1..Len(sq) }

StoredDb ==
    [EmptyDb EXCEPT !.docs = [id \in Range(StoredIds) |->
        [collection |-> "users", data |-> Stamped(Doc(1), id)]]]

\* the doc_ids of the bulk insert: more than one batch; with a duplicate in
\* the second batch
ConcIdLists == { <<"a", "b", "c">>, <<"a", "b", "a">> }

Take(sq) == SubSeq(sq, 1, IF Len(sq) < BATCH_SIZE THEN Len(sq) ELSE BATCH_SIZE)
Drop(sq) == SubSeq(sq, Len(Take(sq)) + 1, Len(sq))

SetPc(t, p) == pc' = [pc EXCEPT ![t] = p]

\* Database.bulk_operations: the connection is given back to the pool when
\* the with-block of bulk_operations is left, before the object is used
BulkOperationsFor(t, c, ids) ==
    /\ t \in Writers
    /\ pc[t] = "idle"
    /\ get_connection(c)
    /\ bo' = [bo EXCEPT ![t] = [conn |-> c, active |-> FALSE, ids |-> ids, todo |-> ids]]
    /\ SetPc(t, "made")
    /\ UNCHANGED <<committed, writer, work, validator, last, held, seen, subscribers>>

\* BulkOperations.__enter__
EnterBlock(t) ==
    /\ pc[t] = "made"
    /\ CanWrite(Eng, bo[t].conn)
    /\ LET r == Enter(Eng, bo[t].conn) IN
       /\ SetEngine(r.e)
       /\ bo' = [bo EXCEPT ![t].active = r.active]
    /\ SetPc(t, "entered")
    /\ UNCHANGED <<validator, last, held, seen, subscribers>>

\* one executemany of bulk_insert; when it fails, the except branch
InsertBatch(t) ==
    /\ t = Inserter
    /\ pc[t] = "entered"
    /\ bo[t].todo # <<>>
    /\ CanWrite(Eng, bo[t].conn)
    /\ LET c == bo[t].conn
           ids == Take(bo[t].todo)
           batch == [i \in 1..Len(ids) |-> Row(ids[i], "users", Stamped(Doc(1), ids[i]))]
           e1 == BeginWrite(Eng, c)
           r == ExecuteMany(View(e1, c), batch)
           e2 == [e1 EXCEPT !.work = r.db]
       IN IF r.ok
          THEN /\ SetEngine(e2)
               /\ bo' = [bo EXCEPT ![t].todo = Drop(@)]
               /\ SetPc(t, IF Drop(bo[t].todo) = <<>> THEN "leaving" ELSE "entered")
          ELSE /\ SetEngine(BulkInsertFailed(e2, c, bo[t].active))
               /\ bo' = bo
               /\ SetPc(t, "raised")
    /\ UNCHANGED <<validator, last, held, seen, subscribers>>

\* (mutant) a DELETE without its collection condition
DeleteRowsAnyCollection(db, collection, ids) ==
    [db EXCEPT !.docs = [id \in { i \in DOMAIN db.docs : i \notin ids } |-> db.docs[id]]]

\* DELETE FROM documents WHERE id IN (...) AND collection = ?
DeleteRows(db, collection, ids) ==
    [db EXCEPT !.docs = [id \in { i \in DOMAIN db.docs :
                                    ~(i \in ids /\ db.docs[i].collection = collection) }
                            |-> db.docs[id]]]

\* one DELETE of bulk_delete
DeleteBatch(t) ==
    /\ t = Deleter
    /\ pc[t] = "entered"
    /\ bo[t].todo # <<>>
    /\ CanWrite(Eng, bo[t].conn)
    /\ LET c == bo[t].conn
           e1 == BeginWrite(Eng, c)
       IN SetEngine([e1 EXCEPT !.work = DeleteRows(View(e1, c), "users", Range(Take(bo[t].todo)))])
    /\ bo' = [bo EXCEPT ![t].todo = Drop(@)]
    /\ UNCHANGED <<validator, last, pc, held, seen, subscribers>>

\* the end of bulk_delete: if not self._transaction_active: commit()
DeleteCommit(t) ==
    /\ t = Deleter
    /\ pc[t] = "entered"
    /\ bo[t].todo = <<>>
    /\ SetEngine(IF ~bo[t].active THEN Commit(Eng, bo[t].conn) ELSE Eng)
    /\ SetPc(t, "leaving")
    /\ UNCHANGED <<validator, last, bo, held, seen, subscribers>>

\* BulkOperations.__exit__
ExitBlock(t) ==
    /\ pc[t] \in {"leaving", "raised"}
    /\ SetEngine(Exit(Eng, bo[t].conn, bo[t].active, pc[t] = "raised"))
    /\ bo' = [bo EXCEPT ![t].active = FALSE]
    /\ SetPc(t, "done")
    /\ UNCHANGED <<validator, last, held, seen, subscribers>>

\* a reader enters the with-block of execute_query
Acquire(t, c) ==
    /\ t \in Readers
    /\ pc[t] = "idle"
    /\ get_connection(c)
    /\ held' = held \cup {c}
    /\ bo' = [bo EXCEPT ![t].conn = c]
    /\ SetPc(t, "reading")
    /\ UNCHANGED <<committed, writer, work, validator, last, seen, subscribers>>

\* find({}) of the reader: the rows its connection reads; the connection
\* goes back to the pool
ReadAndRelease(t) ==
    /\ pc[t] = "reading"
    /\ seen' = Find(View(Eng, bo[t].conn), "users", <<>>)
    /\ held' = held \ {bo[t].conn}
    /\ bo' = [bo EXCEPT ![t].conn = NoConn]
    /\ SetPc(t, "idle")
    /\ UNCHANGED <<committed, writer, work, validator, last, subscribers>>

InitConc ==
    /\ committed = StoredDb
    /\ writer = NoConn
    /\ work = StoredDb
    /\ validator = [c \in Collections |-> FALSE]
    /\ last = NoCall
    /\ pc = [t \in Threads |-> "idle"]
    /\ bo = [t \in Threads |-> NoBulk]
    /\ held = {}
    /\ seen = {}
    /\ subscribers = <<>>

NextConc ==
    \/ \E c \in Conns, ids \in ConcIdLists : BulkOperationsFor(Inserter, c, ids)
    \/ \E c \in Conns : BulkOperationsFor(Deleter, c, StoredIds)
    \/ \E t \in Writers : EnterBlock(t)
    \/ InsertBatch(Inserter)
    \/ DeleteBatch(Deleter)
    \/ DeleteCommit(Deleter)
    \/ \E t \in Writers : ExitBlock(t)
    \/ \E t \in Readers, c \in Conns : Acquire(t, c)
    \/ \E t \in Readers : ReadAndRelease(t)

SpecConc == InitConc /\ [][NextConc]_vars

-----------------------------------------------------------------------------
(* Claims about the threads (SpecConc) *)

IdsOf(rows) == { d.m["_id"].s : d \in rows }

\* C4: whatever way a bulk insert, a bulk delete and the readers interleave,
\* what a reader observes holds all of the documents of each bulk operation
\* or none of them, and every document it reads has its complete payload.
C4_ReaderSeesAllOrNothing ==
    /\ \A t \in Writers :
          \/ Range(bo[t].ids) \cap IdsOf(seen) = {}
          \/ Range(bo[t].ids) \subseteq IdsOf(seen)
    /\ \A d \in seen : d = Stamped(Doc(1), d.m["_id"].s)


-----------------------------------------------------------------------------
(* Queries on a stored collection (SpecQuery): the database holds a few    *)
(* documents and a caller runs find with a query.                          *)

MapOf(k, v) == [y \in {k} |-> v]

\* the payloads of the stored documents, before their '_id'
QueryPayloads ==
    { JMap(MapOf("name", JNull)),
      JMap(MapOf("age", JNum(1))),
      JMap(MapOf("name", JStr("ab"))),
      JMap(MapOf("name", JNum(0))),
      JMap(MapOf("name", JStr(""))),
      JMap(MapOf("profile", JMap(MapOf("name", JNull)))),
      JMap(MapOf("profile", JMap(EmptyMap))),
      JMap(MapOf("profile", JNull)),
      JMap(MapOf("tags", JList(<<>>))),
      JMap(MapOf("tags", JList(<<JStr("ab")>>))),
      JMap(MapOf("tags", JList(<<JStr("tech"), JNum(1)>>))) }

\* the rows a store is made of: the payloads in "users", and a document of
\* "orders"
QueryRows ==
    { [collection |-> "users", data |-> d] : d \in QueryPayloads }
    \cup { [collection |-> "orders",
            data |-> JMap(Put(MapOf("name", JNull), "tags", JList(<<>>)))] }

\* the number of documents of a store
MaxStored == 2

\* the store whose i-th document is rows[i], stamped with the i-th identifier
StoreOf(rows) ==
    [EmptyDb EXCEPT !.docs =
        [id \in { StoredIdSeq[i] : i \in 1..Len(rows) } |->
            LET i == CHOOSE j \in 1..Len(rows) : StoredIdSeq[j] = id IN
            [collection |-> rows[i].collection, data |-> Stamped(rows[i].data, id)]]]

QueryStores ==
    { StoreOf(rows) : rows \in UNION { [1..n -> QueryRows] : n \in 0..MaxStored } }

NullFields == { <<"name">>, <<"tags">>, <<"profile">>, <<"profile", "name">> }

\* find({field: None})
NullQuery(field) == <<Plain(field, JNull)>>

SearchValues ==
    { JStr("ab"), JStr("AB"), JStr("tech"), JStr(""), JStr("["), JStr("]"), JStr("[]"),
      JStr("%"), JStr("_"), JNum(1), JNull }

\* find({'tags': {'$contains': x}})
ContainsQuery(x) == <<Ops(<<"tags">>, << <<"$contains", x>> >>)>>

Queries ==
    { NullQuery(f) : f \in NullFields } \cup { ContainsQuery(x) : x \in SearchValues }

\* Collection.find(query) through connection c
FindCall(c, collection, items) ==
    /\ get_connection(c)
    /\ \E result \in IF FindRaises(View(Eng, c), collection, items) THEN {{}}
                      ELSE FindResults(View(Eng, c), collection, items) :
          last' = [op |-> "find", conn |-> c, collection |-> collection, query |-> items,
                   fields |-> IF IsFullText(items) THEN <<>>
                              ELSE SortedFields(list_indexes(View(Eng, c), collection), items),
                   raised |-> FindRaises(View(Eng, c), collection, items),
                   rows |-> result]
    /\ UNCHANGED <<committed, writer, work, validator, pc, bo, held, seen, subscribers>>

InitQuery ==
    /\ committed \in QueryStores
    /\ writer = NoConn
    /\ work = committed
    /\ validator = [c \in Collections |-> FALSE]
    /\ last = NoCall
    /\ pc = [t \in Threads |-> "idle"]
    /\ bo = [t \in Threads |-> NoBulk]
    /\ held = {}
    /\ seen = {}
    /\ subscribers = <<>>

NextQuery ==
    \E c \in Conns, collection \in BulkCollections, items \in Queries :
        FindCall(c, collection, items)

SpecQuery == InitQuery /\ [][NextQuery]_vars

-----------------------------------------------------------------------------
(* Claims about queries (SpecQuery) *)

\* the document has the field, and the field holds None
RECURSIVE HoldsNull(_, _)
HoldsNull(doc, field) ==
    /\ doc.t = "map"
    /\ Head(field) \in DOMAIN doc.m
    /\ IF Len(field) = 1 THEN doc.m[Head(field)] = JNull
       ELSE HoldsNull(doc.m[Head(field)], Tail(field))

RowsOf(db, collection) ==
    { db.docs[id].data : id \in { i \in DOMAIN db.docs : db.docs[i].collection = collection } }

\* C5: find({field: None}) returns exactly the documents of the collection
\* that have the field with an explicit null: never one that lacks the field,
\* never one whose field holds another value.
C5_FindNullExactlyExplicitNull ==
    \A f \in NullFields :
        (last.op = "find" /\ last.query = NullQuery(f)) =>
            /\ ~last.raised
            /\ last.rows = { d \in RowsOf(View(Eng, last.conn), last.collection) :
                               HoldsNull(d, f) }

\* a find({'name': None}) on a store of a document with 'name': None and a
\* document without 'name', which returned the first only
C5_Witness ==
    /\ last.op = "find"
    /\ last.query = NullQuery(<<"name">>)
    /\ Cardinality(last.rows) = 1
    /\ \E d \in RowsOf(committed, last.collection) : "name" \notin DOMAIN d.m
    /\ \E d \in last.rows : d.m["name"] = JNull

\* C6: for every search value x, find({'tags': {'$contains': x}}) returns no
\* document whose 'tags' is the empty array.
C6_ContainsNeverReturnsEmptyTags ==
    \A x \in SearchValues :
        (last.op = "find" /\ last.query = ContainsQuery(x)) =>
            \A d \in last.rows : ~("tags" \in DOMAIN d.m /\ d.m["tags"] = JList(<<>>))


-----------------------------------------------------------------------------
(* Database.update (database.py).  A query is a list of items as for find; *)
(* an update is the list of the (path, value) targets of its '$set', or a  *)
(* dictionary without '$set'.                                              *)

\* json.dumps(val) if isinstance(val, str) else val, as a statement parameter
UpdateParam(v) == IF v.t = "str" THEN SqlText(JsonText(v)) ELSE Param(v)

\* json.dumps(val)[1:-1]
StripEnds(text) == SubSeq(text, 2, Len(text) - 1)

\* the WHERE term Database.update builds for one operator of a field
UpdateOpHolds(x, field, op, val) ==
    CASE op = "gt" -> SqlLt(UpdateParam(val), x)
      [] op = "lt" -> SqlLt(x, UpdateParam(val))
      [] op = "gte" -> SqlLt(UpdateParam(val), x) \/ SqlEq(x, UpdateParam(val))
      [] op = "lte" -> SqlLt(x, UpdateParam(val)) \/ SqlEq(x, UpdateParam(val))
      [] op = "ne" -> x # SqlNull /\ UpdateParam(val) # SqlNull /\ x # UpdateParam(val)
      [] op = "in" ->
            IF Len(field) > 1
            THEN \E i \in 1..Len(val.l) : SqlEq(x, UpdateParam(val.l[i]))
            ELSE SqlLike(x, <<"%">> \o StripEnds(JsonText(val.l[1])) \o <<"%">>)
      [] op = "contains" -> SqlLike(x, <<"%">> \o StripEnds(JsonText(val)) \o <<"%">>)
      [] OTHER -> TRUE

\* the WHERE terms of one item of the query, on a row
UpdateItemHolds(id, data, item) ==
    IF item.field = <<"_id">> THEN SqlEq(SqlText(Chars(id)), Param(item.value))
    ELSE IF item.plain THEN SqlEq(JsonExtract(data, item.field), UpdateParam(item.value))
    ELSE \A i \in 1..Len(item.ops) :
            UpdateOpHolds(JsonExtract(data, item.field), item.field,
                          LStrip(item.ops[i][1]), item.ops[i][2])

\* SELECT id, data FROM documents WHERE ... AND collection = ?
UpdateSelected(db, collection, query) ==
    { id \in DOMAIN db.docs :
        /\ db.docs[id].collection = collection
        /\ \A i \in 1..Len(query) : UpdateItemHolds(id, db.docs[id].data, query[i]) }

Digits == <<"0", "1", "2", "3">>

\* last_part.isdigit(), int(last_part), for segments of one digit
IsDigit(part) == \E i \in 1..Len(Digits) : Digits[i] = part
IntOf(part) == (CHOOSE i \in 1..Len(Digits) : Digits[i] = part) - 1

Ok(v) == [ok |-> TRUE, v |-> v, err |-> "ok"]
Raise(err) == [ok |-> FALSE, v |-> JNull, err |-> err]

\* (mutant) a list assignment that inserts the value before element i
InsertAt(l, i, value) == SubSeq(l, 1, i) \o <<value>> \o SubSeq(l, i + 1, Len(l))

\* current[int(last_part)] = value on a list (i counts from 0)
ReplaceAt(l, i, value) == [l EXCEPT ![i + 1] = value]

\* the assignment to the last segment of a target
SetLast(current, last_part, value) ==
    IF current.t = "list" /\ current.l # <<>> /\ IsDigit(last_part)
    THEN IF IntOf(last_part) < Len(current.l)
         THEN Ok(JList(ReplaceAt(current.l, IntOf(last_part), value)))
         ELSE Raise("IndexError")
    ELSE IF current.t = "map" THEN Ok(JMap(Put(current.m, last_part, value)))
    ELSE Raise("TypeError")

\* (mutant) an intermediate segment that is always made anew
ChildAlwaysNew(current, part) == JMap(EmptyMap)

\* if part not in current: current[part] = {}; current = current[part]
Child(current, part) ==
    IF part \in DOMAIN current.m THEN current.m[part] ELSE JMap(EmptyMap)

\* the walk along the segments of a target; only a dict can be walked
RECURSIVE SetPath(_, _, _)
SetPath(current, parts, value) ==
    IF Len(parts) = 1 THEN SetLast(current, parts[1], value)
    ELSE IF current.t # "map" THEN Raise("TypeError")
    ELSE LET r == SetPath(Child(current, parts[1]), Tail(parts), value) IN
         IF r.ok THEN Ok(JMap(Put(current.m, parts[1], r.v))) ELSE r

\* for field, value in update["$set"].items()
RECURSIVE SetAll(_, _)
SetAll(doc, targets) ==
    IF targets = <<>> THEN Ok(doc)
    ELSE LET r == SetPath(doc, Head(targets).path, Head(targets).value) IN
         IF r.ok THEN SetAll(r.v, Tail(targets)) ELSE r

\* doc.update(update) for an update without '$set'
DictUpdate(doc, raw) ==
    JMap([k \in DOMAIN doc.m \cup DOMAIN raw |-> IF k \in DOMAIN raw THEN raw[k] ELSE doc.m[k]])

\* {'$set': {...}}, a dictionary of other '$' keys, a dictionary of plain keys
SetUpdate(targets) == [dollar |-> TRUE, set |-> TRUE, targets |-> targets, raw |-> EmptyMap]
RawUpdate(raw) == [dollar |-> TRUE, set |-> FALSE, targets |-> <<>>, raw |-> raw]
PlainUpdate(targets) == [dollar |-> FALSE, set |-> FALSE, targets |-> targets, raw |-> EmptyMap]

\* Collection.update: an update without a '$' key is wrapped in '$set'
Wrap(update) == IF ~update.dollar THEN SetUpdate(update.targets) ELSE update

Target(path, value) == [path |-> path, value |-> value]

\* the document as the loop body rewrites it
Rewrite(doc, update) ==
    IF update.set THEN SetAll(doc, update.targets) ELSE Ok(DictUpdate(doc, update.raw))

\* UPDATE documents SET data = ? WHERE id = ?
UpdateRow(db, id, data) == [db EXCEPT !.docs[id].data = data]

\* Database.update on connection c, for the row the cursor yields first.
\* The UPDATE is run on the cursor of the SELECT, which ends the loop: one
\* row is rewritten.  An error of the loop body leaves the method before
\* anything is written or committed.
database_update(e, c, collection, query, update, id) ==
    IF id = NoConn THEN [e |-> Commit(e, c), res |-> "ok", count |-> 0]
    ELSE LET r == Rewrite(View(e, c).docs[id].data, update) IN
         IF ~r.ok THEN [e |-> e, res |-> r.err, count |-> 0]
         ELSE LET e1 == BeginWrite(e, c)
              IN [e |-> Commit([e1 EXCEPT !.work = UpdateRow(e1.work, id, r.v)], c),
                  res |-> "ok", count |-> 1]


-----------------------------------------------------------------------------
(* Updates of a stored collection (SpecUpdate) *)

TestDoc ==
    JMap(Put(Put(MapOf("name", JStr("John")),
                 "profile", JMap(Put(MapOf("age", JNum(30)), "score", JNum(100)))),
             "tags", JList(<<JStr("a"), JStr("b")>>)))

UpdatePayloads ==
    { TestDoc,
      JMap(MapOf("age", JNum(1))),
      JMap(Put(MapOf("age", JNum(1)), "profile", JMap(EmptyMap))),
      JMap(Put(MapOf("age", JNum(1)), "tags", JList(<<>>))),
      JMap(Put(MapOf("profile", JNum(5)), "tags", JList(<<JStr("a")>>))) }

UpdateRows ==
    { [collection |-> "users", data |-> d] : d \in UpdatePayloads }
    \cup { [collection |-> "orders", data |-> JMap(MapOf("age", JNum(1)))] }

UpdateStores ==
    { StoreOf(rows) : rows \in UNION { [1..n -> UpdateRows] : n \in 0..MaxStored } }

UpdateQueries ==
    { ById("a"), ById("b"), <<>>,
      <<Plain(<<"age">>, JNum(1))>>,
      <<Plain(<<"name">>, JStr("John"))>>,
      <<Ops(<<"age">>, << <<"$gte", JNum(1)>> >>)>> }

Updates ==
    { SetUpdate(<<Target(<<"profile", "age">>, JNum(31)), Target(<<"tags", "0">>, JStr("c"))>>),
      SetUpdate(<<Target(<<"a", "b">>, JNum(5))>>),
      SetUpdate(<<Target(<<"a", "b", "c">>, JNum(5))>>),
      SetUpdate(<<Target(<<"profile", "x", "y">>, JNum(7))>>),
      SetUpdate(<<Target(<<"tags", "1">>, JStr("c")), Target(<<"a", "b">>, JNull)>>),
      SetUpdate(<<Target(<<"tags", "2">>, JStr("c"))>>),
      PlainUpdate(<<Target(<<"age">>, JNum(2))>>),
      RawUpdate(MapOf("$inc", JMap(MapOf("age", JNum(1))))) }

\* the number of update calls of a behaviour
MaxUpdates == 1

UpdatesDone == IF last.op = "update" THEN last.n ELSE 0

\* Collection.update(query, update) through connection c; id is the row the
\* cursor yields first
Update(c, collection, query, update, id) ==
    /\ UpdatesDone < MaxUpdates
    /\ get_connection(c)
    /\ CanWrite(Eng, c)
    /\ LET sel == UpdateSelected(View(Eng, c), collection, query) IN
       IF sel = {} THEN id = NoConn ELSE id \in sel
    /\ LET r == database_update(Eng, c, collection, query, Wrap(update), id) IN
       /\ SetEngine(r.e)
       /\ last' = [op |-> "update", conn |-> c, collection |-> collection, query |-> query,
                   update |-> Wrap(update), id |-> id, res |-> r.res, count |-> r.count,
                   before |-> IF id = NoConn THEN JNull ELSE View(Eng, c).docs[id].data,
                   n |-> UpdatesDone + 1]
    /\ UNCHANGED <<validator, pc, bo, held, seen, subscribers>>

InitUpdate ==
    /\ committed \in UpdateStores
    /\ writer = NoConn
    /\ work = committed
    /\ validator = [c \in Collections |-> FALSE]
    /\ last = NoCall
    /\ pc = [t \in Threads |-> "idle"]
    /\ bo = [t \in Threads |-> NoBulk]
    /\ held = {}
    /\ seen = {}
    /\ subscribers = <<>>

NextUpdate ==
    \E c \in Conns, collection \in BulkCollections, query \in UpdateQueries,
       update \in Updates, id \in Range(StoredIdSeq) \cup {NoConn} :
        Update(c, collection, query, update, id)

SpecUpdate == InitUpdate /\ [][NextUpdate]_vars


-----------------------------------------------------------------------------
(* Claims about updates (SpecUpdate) *)

\* the document the last update rewrote, as its connection reads it now
After == View(Eng, last.conn).docs[last.id].data

Prefix(path, k) == SubSeq(path, 1, k)

\* every segment before the last one is missing or a mapping
Walkable(doc, path) ==
    \A k \in 1..(Len(path) - 1) : Lookup(doc, Prefix(path, k)).t \in {"missing", "map"}

KeysOf(v) == IF v.t = "map" THEN DOMAIN v.m ELSE {}

\* a is b with value at path: mappings along the path, made where b has
\* none, and every other key as in b
RECURSIVE SameExcept(_, _, _, _)
SameExcept(b, a, path, value) ==
    /\ a.t = "map"
    /\ DOMAIN a.m = KeysOf(b) \cup {Head(path)}
    /\ \A k \in KeysOf(b) \ {Head(path)} : a.m[k] = b.m[k]
    /\ IF Len(path) = 1 THEN a.m[Head(path)] = value
       ELSE SameExcept(IF Head(path) \in KeysOf(b) THEN b.m[Head(path)] ELSE Missing,
                       a.m[Head(path)], Tail(path), value)

\* C7: update with '$set' on a dotted path, applied to a matching document
\* in which the segments before the last are missing or mappings (in
\* particular to one without the first key), makes every missing segment a
\* mapping and sets the value at the path, for paths of any depth; every
\* other key of the document stays as it was.  A query by '_id' of a stored
\* document of the collection is applied to that document.
C7_SetCreatesIntermediateMappings ==
    (last.op = "update") =>
        /\ \A id \in DOMAIN View(Eng, last.conn).docs :
              ( /\ last.query = ById(id)
                /\ View(Eng, last.conn).docs[id].collection = last.collection )
              => last.id = id
        /\ ( /\ last.id # NoConn
             /\ last.update.set
             /\ Len(last.update.targets) = 1
             /\ Len(last.update.targets[1].path) >= 2
             /\ Walkable(last.before, last.update.targets[1].path) )
           => /\ last.res = "ok"
              /\ last.count = 1
              /\ SameExcept(last.before, After, last.update.targets[1].path,
                            last.update.targets[1].value)

\* an update of 'a.b.c' on a document without 'a', found by its '_id'
C7_Witness ==
    /\ last.op = "update"
    /\ last.res = "ok"
    /\ last.id # NoConn
    /\ last.query = ById(last.id)
    /\ last.update.targets = <<Target(<<"a", "b", "c">>, JNum(5))>>
    /\ "a" \notin DOMAIN last.before.m
    /\ Lookup(After, <<"a", "b", "c">>) = JNum(5)

\* the target addresses element i of an array of the document
ArrayTarget(doc, target) ==
    LET n == Len(target.path) IN
    /\ n >= 2
    /\ IsDigit(target.path[n])
    /\ Lookup(doc, Prefix(target.path, n - 1)).t = "list"
    /\ IntOf(target.path[n]) < Len(Lookup(doc, Prefix(target.path, n - 1)).l)

IsPrefix(p, q) == Len(p) <= Len(q) /\ Prefix(q, Len(p)) = p

\* the targets address arrays or walkable paths, none of them inside another
Independent(doc, targets) ==
    /\ \A k \in 1..Len(targets) : ArrayTarget(doc, targets[k]) \/ Walkable(doc, targets[k].path)
    /\ \A j, k \in 1..Len(targets) : j # k => ~IsPrefix(targets[j].path, targets[k].path)

\* C8: '$set' on a path whose last segment is a number i and whose prefix
\* addresses an existing array with an element i replaces that element in
\* place: the array keeps its length, element i is the new value, every other
\* element is unchanged; and the other targets of the same update are applied
\* to the same document.
C8_SetReplacesArrayElement ==
    ( /\ last.op = "update"
      /\ last.id # NoConn
      /\ last.update.set
      /\ Independent(last.before, last.update.targets)
      /\ \E k \in 1..Len(last.update.targets) : ArrayTarget(last.before, last.update.targets[k]) )
    => /\ last.res = "ok"
       /\ \A k \in 1..Len(last.update.targets) :
            LET target == last.update.targets[k]
                n == Len(target.path)
                old == Lookup(last.before, Prefix(target.path, n - 1))
                new == Lookup(After, Prefix(target.path, n - 1))
            IN IF ArrayTarget(last.before, target)
               THEN /\ new.t = "list"
                    /\ Len(new.l) = Len(old.l)
                    /\ new.l[IntOf(target.path[n]) + 1] = target.value
                    /\ \A j \in 1..Len(old.l) :
                          j # IntOf(target.path[n]) + 1 => new.l[j] = old.l[j]
               ELSE Lookup(After, target.path) = target.value

\* the update of the tests: 'profile.age' and 'tags.0' on the document with
\* tags ['a', 'b']
C8_Witness ==
    /\ last.op = "update"
    /\ last.res = "ok"
    /\ last.id # NoConn
    /\ last.before = Stamped(TestDoc, last.id)
    /\ last.update.targets =
          <<Target(<<"profile", "age">>, JNum(31)), Target(<<"tags", "0">>, JStr("c"))>>
    /\ Lookup(After, <<"tags">>) = JList(<<JStr("c"), JStr("b")>>)
    /\ Lookup(After, <<"profile", "age">>) = JNum(31)


-----------------------------------------------------------------------------
(* Index management (database.py): create_index, drop_index *)

\* the parts of a field segment that its underscores separate
Tokens(segment) ==
    CASE segment = "user_id" -> <<"user", "id">>
      [] OTHER -> <<segment>>

RECURSIVE Flatten(_)
Flatten(sqs) == IF sqs = <<>> THEN <<>> ELSE Head(sqs) \o Flatten(Tail(sqs))

\* field.replace('.', '_'): the parts of a dotted field
SafeField(field) == Flatten([i \in 1..Len(field) |-> Tokens(field[i])])

\* f"idx_{collection}_{'_'.join(safe_fields)}"
IndexName(collection, fields) ==
    <<"idx", collection>> \o Flatten([i \in 1..Len(fields) |-> SafeField(fields[i])])

\* if isinstance(fields, str): fields = [fields]
StrArg(field) == [str |-> TRUE, field |-> field, fields |-> <<>>]
ListArg(fields) == [str |-> FALSE, field |-> <<>>, fields |-> fields]
AsFieldList(arg) == IF arg.str THEN <<arg.field>> ELSE arg.fields

MetaRow(name, collection, fields, type, unique) ==
    [name |-> name, collection |-> collection, fields |-> fields, type |-> type,
     unique |-> unique]

\* (mutant) a DELETE without its WHERE
DeleteMetaAll(meta, name) == <<>>

\* DELETE FROM indexes WHERE name = ?
DeleteMeta(meta, name) == SelectSeq(meta, LAMBDA row : row.name # name)

\* (mutant) an insert that keeps the row of the same name
AppendMeta(meta, row) == Append(meta, row)

\* INSERT OR REPLACE INTO indexes: the row of the same name goes, the new
\* row is the last one
ReplaceMeta(meta, row) == Append(DeleteMeta(meta, row.name), row)

\* two rows of the collection with the same key, no part of it NULL
DuplicateKeys(db, collection, fields) ==
    LET ix == [collection |-> collection, fields |-> fields, unique |-> TRUE] IN
    \E i, j \in DOMAIN db.docs :
        /\ i # j
        /\ db.docs[i].collection = collection
        /\ db.docs[j].collection = collection
        /\ IndexKey(ix, db.docs[i].data) = IndexKey(ix, db.docs[j].data)
        /\ \A k \in 1..Len(fields) : IndexKey(ix, db.docs[i].data)[k] # SqlNull

\* Database.create_index on connection c: the metadata row is written in a
\* transaction that executescript commits before CREATE INDEX IF NOT EXISTS
\* runs; CREATE UNIQUE INDEX fails on rows with the same key
create_index(e, c, collection, arg, type, unique) ==
    LET fields == AsFieldList(arg)
        name == IndexName(collection, fields)
        e1 == BeginWrite(e, c)
        e2 == Commit([e1 EXCEPT !.work.meta =
                        ReplaceMeta(@, MetaRow(name, collection, fields, type, unique))], c)
        db == e2.committed
    IN IF name \in DOMAIN db.phys THEN [e |-> e2, res |-> "ok", name |-> name]
       ELSE IF unique /\ DuplicateKeys(db, collection, fields)
       THEN [e |-> e2, res |-> "IntegrityError", name |-> name]
       ELSE LET db2 == [db EXCEPT !.phys = Put(@, name,
                           [collection |-> collection, fields |-> fields, unique |-> unique])]
            IN [e |-> Engine(db2, NoConn, db2), res |-> "ok", name |-> name]

\* DROP INDEX IF EXISTS name
DropPhys(phys, name) == [n \in DOMAIN phys \ {name} |-> phys[n]]

\* Database.drop_index on connection c, for a name that is an identifier and
\* not the engine's own
drop_index(e, c, name) ==
    LET e1 == BeginWrite(e, c) IN
    Commit([e1 EXCEPT !.work.phys = DropPhys(@, name),
                      !.work.meta = DeleteMeta(@, name)], c)


-----------------------------------------------------------------------------
(* Index calls on a stored collection (SpecIndex) *)

EmailDoc(email) == [collection |-> "users", data |-> JMap(MapOf("email", JStr(email)))]

\* no documents; two with the same email; two with different emails
IndexStores ==
    { EmptyDb,
      StoreOf(<<EmailDoc("ab"), EmailDoc("ab")>>),
      StoreOf(<<EmailDoc("ab"), EmailDoc("tech")>>) }

\* 'email' as a string and as a list; 'a.b' and ['a', 'b'], which get the
\* same name
IndexArgs ==
    { StrArg(<<"email">>), ListArg(<< <<"email">> >>),
      ListArg(<< <<"a", "b">> >>), ListArg(<< <<"a">>, <<"b">> >>) }

DropNames ==
    { IndexName("users", << <<"email">> >>), IndexName("users", << <<"a", "b">> >>),
      <<"nosuch">>, IdxCollection }

MetaNames(db) == { db.meta[i].name : i \in 1..Len(db.meta) }

\* Database.create_index(collection, fields, unique=unique) through c
CreateIndex(c, collection, arg, unique) ==
    /\ get_connection(c)
    /\ CanWrite(Eng, c)
    /\ LET r == create_index(Eng, c, collection, arg, "btree", unique) IN
       /\ SetEngine(r.e)
       /\ last' = [op |-> "create_index", conn |-> c, collection |-> collection,
                   arg |-> arg, unique |-> unique, name |-> r.name, res |-> r.res,
                   again |-> /\ last.op = "create_index"
                             /\ last.collection = collection
                             /\ AsFieldList(last.arg) = AsFieldList(arg)
                             /\ last.unique = unique]
    /\ UNCHANGED <<validator, pc, bo, held, seen, subscribers>>

\* Database.drop_index(name) through c
DropIndex(c, name) ==
    /\ get_connection(c)
    /\ CanWrite(Eng, c)
    /\ SetEngine(drop_index(Eng, c, name))
    /\ last' = [op |-> "drop_index", conn |-> c, name |-> name, res |-> "ok",
                declared |-> name \in MetaNames(View(Eng, c)),
                twice |-> last.op = "drop_index" /\ last.name = name /\ last.declared]
    /\ UNCHANGED <<validator, pc, bo, held, seen, subscribers>>

InitIndex ==
    /\ committed \in IndexStores
    /\ writer = NoConn
    /\ work = committed
    /\ validator = [c \in Collections |-> FALSE]
    /\ last = NoCall
    /\ pc = [t \in Threads |-> "idle"]
    /\ bo = [t \in Threads |-> NoBulk]
    /\ held = {}
    /\ seen = {}
    /\ subscribers = <<>>

NextIndex ==
    \/ \E c \in Conns, arg \in IndexArgs, unique \in BOOLEAN :
          CreateIndex(c, "users", arg, unique)
    \/ \E c \in Conns, name \in DropNames : DropIndex(c, name)
    \/ \E c \in Conns, l \in SingleDocs : Insert(c, "users", l, TRUE, "c")

SpecIndex == InitIndex /\ [][NextIndex]_vars

-----------------------------------------------------------------------------
(* Claims about indexes (SpecIndex) *)

SameEngine == committed' = committed /\ writer' = writer /\ work' = work

Definitions(db, collection, fields) ==
    { i \in 1..Len(list_indexes(db, collection)) :
        list_indexes(db, collection)[i].fields = fields }

\* C9: a second create_index with the collection, the field list and the
\* arguments of the call before it leaves the database as the first call
\* left it, and list_indexes(collection) reports one definition for the
\* field list.
C9_CreateIndexIdempotent ==
    [][ (last'.op = "create_index" /\ last'.again) =>
          /\ SameEngine
          /\ last'.res = last.res
          /\ last'.name = last.name
          /\ \A c \in Conns :
               /\ list_indexes(View(NextEng, c), last'.collection)
                     = list_indexes(View(Eng, c), last'.collection)
               /\ Cardinality(Definitions(View(NextEng, c), last'.collection,
                                          AsFieldList(last'.arg))) = 1
      ]_vars

\* a second create_index(['email']) after the first, beside another index
C9_Witness ==
    /\ last.op = "create_index"
    /\ last.again
    /\ last.res = "ok"
    /\ Len(list_indexes(committed, "users")) = 2
    /\ last.name \in DOMAIN committed.phys

-----------------------------------------------------------------------------
(* Full-text search on a stored collection (SpecText) *)

TextPayloads ==
    { JMap(MapOf("profile", JMap(MapOf("interests", JList(<<JStr("tech")>>))))),
      JMap(MapOf("name", JStr("TECH"))),
      JMap(MapOf("age", JNum(1))),
      JMap(MapOf("tags", JList(<<JMap(MapOf("k", JList(<<JNum(12), JStr("ab")>>)))>>))),
      JMap(MapOf("name", JNull)),
      JMap(MapOf("profile", JMap(EmptyMap))) }

TextRows ==
    { [collection |-> "users", data |-> d] : d \in TextPayloads }
    \cup { [collection |-> "orders", data |-> JMap(MapOf("name", JStr("tech")))] }

\* the field lists of the declared indexes of "users": none, one, two
IndexSets ==
    { <<>>,
      << << <<"name">> >> >>,
      << << <<"profile", "interests">>, <<"name">> >>, << <<"age">> >> >> }

\* the database after create_index(collection, fields) for the field lists
RECURSIVE WithIndexes(_, _, _)
WithIndexes(db, collection, fieldLists) ==
    IF fieldLists = <<>> THEN db
    ELSE WithIndexes(
            create_index(Engine(db, NoConn, db), "c1", collection,
                         ListArg(Head(fieldLists)), "btree", FALSE).e.committed,
            collection, Tail(fieldLists))

TextStores ==
    { WithIndexes(StoreOf(rows), "users", ixs) :
        rows \in UNION { [1..n -> TextRows] : n \in 0..MaxStored }, ixs \in IndexSets }

\* find({'*': {'$contains': t}})
TextQuery(t) == <<Ops(<<"*">>, << <<"$contains", t>> >>)>>

SearchTerms == { JStr("tech"), JStr("TECH"), JStr("ec"), JStr("ab"), JStr("1"), JStr("2"),
                 JStr(""), JStr("zz") }

TextQueries == { TextQuery(t) : t \in SearchTerms \cup {JNum(1)} }

InitText ==
    /\ committed \in TextStores
    /\ writer = NoConn
    /\ work = committed
    /\ validator = [c \in Collections |-> FALSE]
    /\ last = NoCall
    /\ pc = [t \in Threads |-> "idle"]
    /\ bo = [t \in Threads |-> NoBulk]
    /\ held = {}
    /\ seen = {}
    /\ subscribers = <<>>

NextText ==
    \E c \in Conns, items \in TextQueries : FindCall(c, "users", items)

SpecText == InitText /\ [][NextText]_vars

-----------------------------------------------------------------------------
(* Claims about full-text search (SpecText) *)

\* the strings and numbers in a value, at any depth, as text
RECURSIVE Leaves(_)
Leaves(value) ==
    CASE value.t = "str" -> {Chars(value.s)}
      [] value.t = "num" -> {DigitChars(value.n)}
      [] value.t = "map" -> UNION { Leaves(value.m[k]) : k \in DOMAIN value.m }
      [] value.t = "list" -> UNION { Leaves(value.l[i]) : i \in 1..Len(value.l) }
      [] OTHER -> {}

-----------------------------------------------------------------------------
(* More claims about the calls of one caller (Spec) *)

\* the stored rows, each with its identifier
AllRows(e) == { <<id, e.work.docs[id]>> : id \in DOMAIN e.work.docs }

\* C12: no two stored documents have the same identifier, in whatever
\* collections they are; an insert or bulk insert that fails on an identifier
\* in use leaves the store as it was.
C12_IdentifiersUniqueFailedInsertNoChange ==
    [][ /\ \A r1, r2 \in AllRows(NextEng) : r1[1] = r2[1] => r1 = r2
        /\ ( /\ last'.op \in {"insert", "bulk_insert", "with_bulk_insert"}
             /\ last'.res = "IntegrityError" )
           => View(NextEng, last'.conn).docs = View(Eng, last'.conn).docs
      ]_vars


-----------------------------------------------------------------------------
(* More claims about indexes (SpecIndex) *)

\* C13: the definitions list_indexes reports and the engine's indexes made
\* by create_index correspond one to one: a listed definition has an engine
\* index on its collection, its fields and its uniqueness, and such an engine
\* index has a listed definition.
C13_MetadataMatchesEngineIndexes ==
    \A c \in Conns :
        LET db == View(Eng, c) IN
        /\ \A i \in 1..Len(list_indexes(db, "")) :
              LET row == list_indexes(db, "")[i] IN
              /\ row.name \in DOMAIN db.phys
              /\ db.phys[row.name] = [collection |-> row.collection, fields |-> row.fields,
                                      unique |-> row.unique]
        /\ \A n \in DOMAIN db.phys \ {IdxCollection, IdxCollectionId} :
              n \in MetaNames(db)


-----------------------------------------------------------------------------
(* Claims about the bulk operations interface of a collection (Spec).      *)
(* Collection.bulk_operations returns Database.bulk_operations(): the      *)
(* calls are BulkInsertInBlock and BulkInsertDirect.                       *)

\* C14: on a collection with a validator, a bulk call through the
\* collection's bulk operations interface with a document that fails the
\* validator fails with the validation error before anything is written, and
\* the store stays as it was.
C14_BulkOperationsValidate ==
    [][ ( /\ last'.op \in {"bulk_insert", "with_bulk_insert", "bulk_update", "bulk_delete"}
          /\ validator[last'.collection]
          /\ ~AllValid(last'.objs, last'.docs) )
        => (last'.res = "ValidationError" /\ NextEng = Eng) ]_vars


-----------------------------------------------------------------------------
(* Operator dictionaries in Collection.find (SpecOperators) *)

OperatorPayloads ==
    { JMap(MapOf("age", JNum(1))),
      JMap(MapOf("age", JNum(2))),
      JMap(MapOf("name", JStr("ab"))),
      JMap(MapOf("age", JNull)) }

OperatorRows ==
    { [collection |-> "users", data |-> d] : d \in OperatorPayloads }
    \cup { [collection |-> "orders", data |-> JMap(MapOf("age", JNum(1)))] }

OperatorStores ==
    { StoreOf(rows) : rows \in UNION { [1..n -> OperatorRows] : n \in 0..MaxStored } }

\* the operator tokens the dictionary form is documented with
SupportedTokens == {"$gt", "$gte", "$lt", "$lte", "$ne", "$in", "$contains"}

\* find({field: {token: value}}) and find({field: {'$gt': 0, token: value}})
OtherTokens == {"$regex", "$exists", "$eq", "$nin"}

UnknownQueries ==
    { <<Ops(<<"age">>, << <<tok, JNum(1)>> >>)>> : tok \in OtherTokens }
    \cup { <<Ops(<<"age">>, << <<"$gt", JNum(1)>>, <<tok, JNum(1)>> >>)>> : tok \in {"$regex"} }

InFields == { <<"age">>, <<"name">> }

InLists == { <<>>, <<JNum(1)>>, <<JNum(1), JNum(2)>>, <<JStr("ab"), JNum(2)>> }

\* find({field: {'$in': S}})
InQuery(field, S) == <<Ops(field, << <<"$in", JList(S)>> >>)>>

OperatorQueries ==
    UnknownQueries
    \cup { InQuery(f, S) : f \in InFields, S \in InLists }
    \cup { <<Ops(<<"age">>, << <<"$gte", JNum(2)>> >>)>> }

InitOperators ==
    /\ committed \in OperatorStores
    /\ writer = NoConn
    /\ work = committed
    /\ validator = [c \in Collections |-> FALSE]
    /\ last = NoCall
    /\ pc = [t \in Threads |-> "idle"]
    /\ bo = [t \in Threads |-> NoBulk]
    /\ held = {}
    /\ seen = {}
    /\ subscribers = <<>>

\* find_one(q) with each of the supported operators and with plain values
OneQueries ==
    { <<Ops(<<"age">>, << <<tok, JNum(1)>> >>)>> : tok \in {"$gt", "$gte", "$lt", "$lte", "$ne"} }
    \cup { <<Ops(<<"name">>, << <<"$contains", JStr("a")>> >>)>>,
           <<Plain(<<"age">>, JNum(1))>>, <<Plain(<<"name">>, JStr("ab"))>>,
           <<Plain(<<"age">>, JNull)>>, <<>>,
           InQuery(<<"age">>, <<JNum(1)>>) }

\* Collection.find_one(query) through connection c
FindOneCall(c, collection, items) ==
    /\ get_connection(c)
    /\ \E result \in IF QueryRaises(FindOneConds(items)) THEN {None}
                      ELSE FindOne(View(Eng, c), collection, items) :
          last' = [op |-> "find_one", conn |-> c, collection |-> collection,
                   query |-> items, raised |-> QueryRaises(FindOneConds(items)),
                   doc |-> result]
    /\ UNCHANGED <<committed, writer, work, validator, pc, bo, held, seen, subscribers>>

NextOperators ==
    \/ \E c \in Conns, items \in OperatorQueries : FindCall(c, "users", items)
    \/ \E c \in Conns, items \in OneQueries : FindOneCall(c, "users", items)

SpecOperators == InitOperators /\ [][NextOperators]_vars

\* the query has an operator token outside the supported set
HasOtherToken(items) ==
    \E i \in 1..Len(items) :
        /\ ~items[i].plain
        /\ \E j \in 1..Len(items[i].ops) : items[i].ops[j][1] \notin SupportedTokens

\* C15: a find whose dictionary query has an operator token outside
\* {$gt, $gte, $lt, $lte, $ne, $in, $contains} fails and returns no document.
C15_UnknownOperatorRejected ==
    (last.op = "find" /\ HasOtherToken(last.query)) => (last.raised /\ last.rows = {})

\* C16: find({field: {'$in': S}}) returns exactly the documents of the
\* collection whose value at the field is a member of S, for every list S,
\* the empty list included.
C16_InSelectsMembers ==
    \A f \in InFields, S \in InLists :
        (last.op = "find" /\ last.query = InQuery(f, S)) =>
            /\ ~last.raised
            /\ last.rows = { d \in RowsOf(View(Eng, last.conn), last.collection) :
                                \E i \in 1..Len(S) : Lookup(d, f) = S[i] }


-----------------------------------------------------------------------------
(* More claims about the threads (SpecConc) *)

\* the BulkOperations of thread t exists and has not committed or rolled back
InUse(t) == pc[t] \in {"made", "entered", "leaving", "raised"}

\* C17: the connection of a BulkOperations obtained from
\* Database.bulk_operations is checked out of the pool from the moment the
\* object is returned until it commits or rolls back.
C17_BulkConnectionStaysCheckedOut ==
    \A t \in Writers : InUse(t) => bo[t].conn \in held


-----------------------------------------------------------------------------
(* Claims about the with-block of BulkOperations (Spec) *)

\* C19: when a with-block of a BulkOperations has been left, its connection
\* has no open transaction, also when a transaction was open on the
\* connection at entry; after a normal exit every document of the block is
\* committed, after an exception none is and the committed store is as before.
C19_WithBlockEndsTransaction ==
    [][ (last'.op \in {"with_bulk_insert", "insert_many"} /\ last'.conn # NoConn) =>
          /\ NextEng.writer # last'.conn
          /\ last'.res = "ok" =>
                \A i \in 1..Len(last'.ids) : last'.ids[i] \in DOMAIN committed'.docs
          /\ last'.res # "ok" => committed' = committed ]_vars


-----------------------------------------------------------------------------
(* Threads in Database.update (SpecLock): the SELECT of the matching rows   *)
(* and the UPDATE with its commit are two steps of a call.                  *)

LockRows ==
    { [collection |-> "users", data |-> JMap(MapOf("age", JNum(1)))],
      [collection |-> "users", data |-> JMap(MapOf("age", JNum(2)))] }

LockStores ==
    { StoreOf(rows) : rows \in UNION { [1..n -> LockRows] : n \in 1..MaxStored } }

LockQueries == { ById("a"), <<>>, <<Plain(<<"age">>, JNum(1))>> }

LockUpdates ==
    { SetUpdate(<<Target(<<"age">>, JNum(3))>>),
      SetUpdate(<<Target(<<"seen">>, JNum(1))>>),
      SetUpdate(<<Target(<<"age", "x">>, JNum(1))>>) }

\* cursor.execute("SELECT id, data FROM documents WHERE ..."): the rows are
\* read through the connection, no transaction is begun; the loop takes up
\* one of the rows
UpdateSelect(t, c, query, update, id) ==
    /\ t \in Writers
    /\ pc[t] = "idle"
    /\ get_connection(c)
    /\ LET sel == UpdateSelected(View(Eng, c), "users", query) IN
       IF sel = {} THEN id = NoConn ELSE id \in sel
    /\ held' = held \cup {c}
    /\ bo' = [bo EXCEPT ![t] =
                [conn |-> c, id |-> id, update |-> update,
                 data |-> IF id = NoConn THEN JNull ELSE View(Eng, c).docs[id].data]]
    /\ SetPc(t, "selected")
    /\ UNCHANGED <<committed, writer, work, validator, last, seen, subscribers>>

\* the body of the loop and conn.commit(): the document that was read is
\* rewritten and stored; an exception leaves the with-block without a write
UpdateWrite(t) ==
    /\ pc[t] = "selected"
    /\ LET c == bo[t].conn
           r == Rewrite(bo[t].data, bo[t].update)
       IN IF bo[t].id = NoConn
          THEN /\ SetEngine(Commit(Eng, c))
               /\ last' = [op |-> "update", conn |-> c, res |-> "ok", count |-> 0]
          ELSE IF ~r.ok
          THEN /\ SetEngine(Eng)
               /\ last' = [op |-> "update", conn |-> c, res |-> r.err, count |-> 0]
          ELSE /\ CanWrite(Eng, c)
               /\ LET e1 == BeginWrite(Eng, c) IN
                  SetEngine(Commit([e1 EXCEPT !.work =
                                        IF bo[t].id \in DOMAIN e1.work.docs
                                        THEN UpdateRow(e1.work, bo[t].id, r.v)
                                        ELSE e1.work], c))
               /\ last' = [op |-> "update", conn |-> c, res |-> "ok", count |-> 1]
    /\ held' = held \ {bo[t].conn}
    /\ bo' = [bo EXCEPT ![t] = NoBulk]
    /\ SetPc(t, "done")
    /\ UNCHANGED <<validator, seen, subscribers>>

InitLock ==
    /\ committed \in LockStores
    /\ writer = NoConn
    /\ work = committed
    /\ validator = [c \in Collections |-> FALSE]
    /\ last = NoCall
    /\ pc = [t \in Threads |-> "idle"]
    /\ bo = [t \in Threads |-> NoBulk]
    /\ held = {}
    /\ seen = {}
    /\ subscribers = <<>>

NextLock ==
    \/ \E t \in Writers, c \in Conns, query \in LockQueries, update \in LockUpdates,
          id \in Range(StoredIdSeq) \cup {NoConn} :
          UpdateSelect(t, c, query, update, id)
    \/ \E t \in Writers : UpdateWrite(t)

SpecLock == InitLock /\ [][NextLock]_vars

\* C18: an update holds the store-wide write lock from before its first read,
\* the read of the matching documents, until its commit or rollback, so that
\* the steps of two updates never interleave.
C18_WriteLockBeforeFirstRead ==
    /\ \A t \in Writers : pc[t] = "selected" => writer = bo[t].conn
    /\ \A t1, t2 \in Writers : (pc[t1] = "selected" /\ pc[t2] = "selected") => t1 = t2


-----------------------------------------------------------------------------
(* Claims about the stored payloads (Spec) *)

\* C20: after any sequence of calls, the '_id' inside the payload of each
\* stored document is the identifier under which the document is stored.
C20_PayloadIdIsRowId ==
    \A db \in {committed, work} : \A id \in DOMAIN db.docs :
        db.docs[id].data = Stamped(db.docs[id].data, id)


-----------------------------------------------------------------------------
(* BulkOperations.bulk_delete as a call (SpecDelete) *)

\* for i in range(0, len(doc_ids), BATCH_SIZE): one DELETE for each batch
RECURSIVE DeleteBatches(_, _, _)
DeleteBatches(db, collection, ids) ==
    IF ids = <<>> THEN db
    ELSE DeleteBatches(DeleteRows(db, collection, Range(Take(ids))), collection, Drop(ids))

\* BulkOperations.bulk_delete on connection c: commits unless a with-block
\* is active
bulk_delete(e, c, active, collection, ids) ==
    LET e1 == IF ids = <<>> THEN e ELSE BeginWrite(e, c)
        e2 == IF ids = <<>> THEN e
              ELSE [e1 EXCEPT !.work = DeleteBatches(View(e1, c), collection, ids)]
    IN IF ~active THEN Commit(e2, c) ELSE e2

DeleteCall(op, c, collection, ids) ==
    [op |-> op, conn |-> c, collection |-> collection, ids |-> ids, res |-> "ok",
     before |-> View(Eng, c).docs]

\* ops = db.bulk_operations(); ops.bulk_delete(collection, doc_ids)
BulkDeleteDirect(c, collection, ids) ==
    /\ get_connection(c)
    /\ ids = <<>> \/ CanWrite(Eng, c)
    /\ SetEngine(bulk_delete(Eng, c, FALSE, collection, ids))
    /\ last' = DeleteCall("bulk_delete", c, collection, ids)
    /\ UNCHANGED <<validator, pc, bo, held, seen, subscribers>>

\* with db.bulk_operations() as ops: ops.bulk_delete(collection, doc_ids)
BulkDeleteInBlock(c, collection, ids) ==
    /\ get_connection(c)
    /\ CanWrite(Eng, c)
    /\ LET en == Enter(Eng, c) IN
       SetEngine(Exit(bulk_delete(en.e, c, en.active, collection, ids), c, en.active, FALSE))
    /\ last' = DeleteCall("with_bulk_delete", c, collection, ids)
    /\ UNCHANGED <<validator, pc, bo, held, seen, subscribers>>

DeleteRowSet ==
    { [collection |-> "users", data |-> Doc(1)],
      [collection |-> "orders", data |-> Doc(1)] }

DeleteStores ==
    { StoreOf(rows) : rows \in UNION { [1..n -> DeleteRowSet] : n \in 0..MaxStored } }

\* the doc_ids of the calls: none, stored and unknown identifiers, one
\* twice, more than one batch
DeleteIdLists == { <<>>, <<"a">>, <<"b", "a">>, <<"c">>, <<"a", "a">>, <<"c", "b", "a">> }

InitDelete ==
    /\ committed \in DeleteStores
    /\ writer = NoConn
    /\ work = committed
    /\ validator = [c \in Collections |-> FALSE]
    /\ last = NoCall
    /\ pc = [t \in Threads |-> "idle"]
    /\ bo = [t \in Threads |-> NoBulk]
    /\ held = {}
    /\ seen = {}
    /\ subscribers = <<>>

NextDelete ==
    \/ \E c \in Conns, collection \in BulkCollections, ids \in DeleteIdLists :
          BulkDeleteDirect(c, collection, ids)
    \/ \E c \in Conns, collection \in BulkCollections, ids \in DeleteIdLists :
          BulkDeleteInBlock(c, collection, ids)
    \/ \E c \in Conns, l \in SingleDocs : Insert(c, "users", l, TRUE, "c")

SpecDelete == InitDelete /\ [][NextDelete]_vars

\* C21: bulk_delete(collection, ids) removes exactly the documents of the
\* collection whose identifier is in ids; every document of another
\* collection, also one whose identifier is in ids, and every document of the
\* collection whose identifier is not in ids stays as it was; with an empty
\* ids list nothing changes.
C21_BulkDeleteExactlyIdsOfCollection ==
    [][ last'.op \in {"bulk_delete", "with_bulk_delete"} =>
          LET old == View(Eng, last'.conn).docs
              new == View(NextEng, last'.conn).docs
              gone == { id \in DOMAIN old : /\ id \in Range(last'.ids)
                                            /\ old[id].collection = last'.collection }
          IN /\ DOMAIN new = DOMAIN old \ gone
             /\ \A id \in DOMAIN new : new[id] = old[id]
             /\ last'.ids = <<>> => new = old ]_vars

\* a bulk_delete of more than one batch that removed a document of its
\* collection and kept a document of the other collection whose identifier
\* was in ids
C21_Witness ==
    /\ last.op = "bulk_delete"
    /\ Len(last.ids) > BATCH_SIZE
    /\ \E id \in Range(last.ids) : /\ id \in DOMAIN last.before
                                   /\ id \notin DOMAIN committed.docs
    /\ \E id \in Range(last.ids) : /\ id \in DOMAIN committed.docs
                                   /\ committed.docs[id].collection # last.collection


-----------------------------------------------------------------------------
(* More claims about Database.update (SpecUpdate) *)

\* C22: an update that returns has rewritten every document of the
\* collection that its query selects, and returns their number.
C22_UpdateRewritesEverySelected ==
    [][ (last'.op = "update" /\ last'.res = "ok") =>
          LET old == View(Eng, last'.conn).docs
              new == View(NextEng, last'.conn).docs
              sel == UpdateSelected(View(Eng, last'.conn), last'.collection, last'.query)
          IN /\ last'.count = Cardinality(sel)
             /\ \A id \in sel : new[id].data = Rewrite(old[id].data, last'.update).v ]_vars


-----------------------------------------------------------------------------
(* Collection.find on collections whose indexes are declared and dropped   *)
(* between the calls (SpecPlan)                                            *)

PlanDoc(age, name) == JMap(Put(MapOf("age", JNum(age)), "name", JStr(name)))

PlanRows ==
    { [collection |-> "users", data |-> PlanDoc(1, "ab")],
      [collection |-> "users", data |-> PlanDoc(2, "ab")],
      [collection |-> "orders", data |-> PlanDoc(1, "ab")] }

\* a collection of more documents than execute_query returns, stored from
\* the highest age to the lowest
ManyRows == [i \in 1..(ResultCap + 1) |->
                [collection |-> "users", data |-> PlanDoc(ResultCap + 2 - i, "ab")]]

PlanStores ==
    { StoreOf(rows) : rows \in UNION { [1..n -> PlanRows] : n \in 0..MaxStored } }
    \cup {StoreOf(ManyRows)}

\* the fields arguments of create_index on "users": an index of one field,
\* and one of three fields that shares that field and has a field no query has
PlanIndexArgs ==
    { StrArg(<<"age">>), ListArg(<< <<"name">>, <<"city">>, <<"age">> >>) }

PlanDropNames ==
    { IndexName("users", AsFieldList(arg)) : arg \in PlanIndexArgs }
    \cup { IndexName("orders", << <<"name">> >>) }

PlanQueries ==
    { <<>>,
      <<Plain(<<"name">>, JStr("ab"))>>,
      <<Ops(<<"age">>, << <<"$gte", JNum(1)>> >>)>>,
      <<Plain(<<"name">>, JStr("ab")), Plain(<<"age">>, JNum(1))>>,
      <<Ops(<<"age">>, << <<"$gte", JNum(2)>> >>), Plain(<<"name">>, JStr("ab"))>>,
      <<Plain(<<"zip">>, JNull), Plain(<<"age">>, JNum(1)), Plain(<<"name">>, JStr("ab"))>>,
      <<Plain(<<"zip">>, JNull), Plain(<<"name">>, JStr("ab")),
        Ops(<<"age">>, << <<"$ne", JNum(1)>> >>)>> }

InitPlan ==
    /\ committed \in PlanStores
    /\ writer = NoConn
    /\ work = committed
    /\ validator = [c \in Collections |-> FALSE]
    /\ last = NoCall
    /\ pc = [t \in Threads |-> "idle"]
    /\ bo = [t \in Threads |-> NoBulk]
    /\ held = {}
    /\ seen = {}
    /\ subscribers = <<>>

NextPlan ==
    \/ \E c \in Conns, arg \in PlanIndexArgs : CreateIndex(c, "users", arg, FALSE)
    \/ \E c \in Conns : CreateIndex(c, "orders", ListArg(<< <<"name">> >>), FALSE)
    \/ \E c \in Conns, name \in PlanDropNames : DropIndex(c, name)
    \/ \E c \in Conns, items \in PlanQueries : FindCall(c, "users", items)

SpecPlan == InitPlan /\ [][NextPlan]_vars

\* the fields of the indexes, index after index
RECURSIVE IndexFieldSeq(_)
IndexFieldSeq(indexes) ==
    IF indexes = <<>> THEN <<>> ELSE Head(indexes).fields \o IndexFieldSeq(Tail(indexes))

\* the first place of x in sq
Pos(x, sq) == CHOOSE i \in 1..Len(sq) : sq[i] = x /\ \A j \in 1..(i - 1) : sq[j] # x

\* C23: the field order find builds its conditions in is a permutation of the
\* query's fields: first the fields that occur in a declared index of the
\* collection, each once, in the order in which the indexes (in storage order)
\* and their fields (in index order) name them first, then the remaining
\* fields in the query's order; without declared indexes it is the query's
\* order.
C23_FieldsOrderedByIndexes ==
    (last.op = "find" /\ ~IsFullText(last.query)) =>
        LET q == QueryFields(last.query)
            indexes == list_indexes(View(Eng, last.conn), last.collection)
            ix == IndexFieldSeq(indexes)
            sf == last.fields
        IN /\ Len(sf) = Len(q)
           /\ Range(sf) = Range(q)
           /\ Distinct(sf)
           /\ \A i, j \in 1..Len(sf) : i < j =>
                 IF InSeq(sf[i], ix)
                 THEN InSeq(sf[j], ix) => Pos(sf[i], ix) < Pos(sf[j], ix)
                 ELSE ~InSeq(sf[j], ix) /\ Pos(sf[i], q) < Pos(sf[j], q)
           /\ indexes = <<>> => sf = q

\* a find of three fields on a collection with two declared indexes that
\* share a field of the query: the order differs from the query's
C23_Witness ==
    /\ last.op = "find"
    /\ Len(last.fields) = 3
    /\ last.fields # QueryFields(last.query)
    /\ \E i, j \in 1..Len(committed.meta) :
          /\ i # j
          /\ committed.meta[i].collection = "users"
          /\ committed.meta[j].collection = "users"
          /\ InSeq(<<"age">>, committed.meta[i].fields)
          /\ InSeq(<<"age">>, committed.meta[j].fields)

\* C24: creating or dropping an index changes the result of no find: for
\* every query and collection the call can return the same sets of documents,
\* or fails the same way, after the step as before it.
C24_FindResultIndependentOfIndexes ==
    [][ last'.op \in {"create_index", "drop_index"} =>
          \A collection \in BulkCollections, items \in PlanQueries :
              LET old == View(Eng, last'.conn)
                  new == View(NextEng, last'.conn)
              IN /\ FindRaises(new, collection, items) = FindRaises(old, collection, items)
                 /\ FindResults(new, collection, items) = FindResults(old, collection, items)
      ]_vars


-----------------------------------------------------------------------------
(* Claims about find_one (SpecOperators) *)

\* C25: for a dictionary query with the supported operators or plain values,
\* a find_one that returns has returned None exactly when find on the same
\* query returns no document, and otherwise one of the documents find returns.
C25_FindOneAgreesWithFind ==
    (last.op = "find_one" /\ ~last.raised /\ ~HasOtherToken(last.query)) =>
        LET rows == Find(View(Eng, last.conn), last.collection, last.query) IN
        /\ last.doc = None <=> rows = {}
        /\ last.doc # None => last.doc \in rows


-----------------------------------------------------------------------------
(* Claims about the selection of Database.update (SpecUpdate) *)

\* C26: the documents an update selects with a dictionary query are exactly
\* the documents find returns for the query on the collection in the same
\* state.
C26_UpdateSelectsWhatFindReturns ==
    [][ last'.op = "update" =>
          LET db == View(Eng, last'.conn)
              sel == UpdateSelected(db, last'.collection, last'.query)
          IN /\ ~FindRaises(db, last'.collection, last'.query)
             /\ { db.docs[id].data : id \in sel }
                   = Find(db, last'.collection, last'.query) ]_vars


-----------------------------------------------------------------------------
(* Emitter: the subscriber list and its notification loop                  *)
(*                                                                         *)
(* A callback is a function of (event, data) whose body may call subscribe *)
(* or unsubscribe of the emitter it is subscribed to.  emit runs the       *)
(* callbacks synchronously, so one emit, with everything its callbacks do  *)
(* to the list, is one step.                                               *)

MaxSubscribers == 3
MaxCalls == 6

NotCallable == "5"
Callbacks == {"log", "once", "again", "adder", "remover"}
Events == {"inserted", "deleted"}
Payloads == {1, 2}

callable(callback) == callback \in Callbacks

(* list.remove(x): the list without the first occurrence of x *)
RemoveFirst(list, x) ==
    LET i == CHOOSE k \in 1..Len(list) :
                 /\ list[k] = x
                 /\ \A j \in 1..(k - 1) : list[j] # x
    IN SubSeq(list, 1, i - 1) \o SubSeq(list, i + 1, Len(list))

(* Emitter.subscribe: the list after subscribe(callback) *)
subscribe(subs, callback) ==
    IF callable(callback) THEN Append(subs, callback) ELSE subs

(* Emitter.unsubscribe: the list after unsubscribe(callback) *)
unsubscribe(subs, callback) ==
    IF \E k \in 1..Len(subs) : subs[k] = callback
    THEN RemoveFirst(subs, callback)
    ELSE subs

(* The list after the body of a callback has run *)
CallbackBody(callback, subs) ==
    CASE callback = "once"    -> unsubscribe(subs, "once")
      [] callback = "again"   -> subscribe(subs, "again")
      [] callback = "adder"   -> subscribe(subs, "log")
      [] callback = "remover" -> unsubscribe(subs, "log")
      [] OTHER                -> subs

has_subscribers(subs) == Len(subs) > 0

(* The for loop of Emitter.emit: the list iterator holds a position in the *)
(* list object itself and stops when the position is past its end.  The    *)
(* loop is cut after MaxCalls calls (returned = FALSE: emit still runs).   *)
RECURSIVE EmitLoop(_, _, _, _, _)
EmitLoop(subs, i, calls, event, data) ==
    IF i > Len(subs) THEN [subs |-> subs, calls |-> calls, returned |-> TRUE]
    ELSE IF Len(calls) >= MaxCalls
         THEN [subs |-> subs, calls |-> calls, returned |-> FALSE]
    ELSE EmitLoop(CallbackBody(subs[i], subs), i + 1,
                  Append(calls, [callback |-> subs[i], event |-> event, data |-> data]),
                  event, data)

(* Emitter.emit(event, data) *)
emit(subs, event, data) ==
    IF has_subscribers(subs) THEN EmitLoop(subs, 1, <<>>, event, data)
    ELSE [subs |-> subs, calls |-> <<>>, returned |-> TRUE]

Subscribe(callback) ==
    /\ Len(subscribers) < MaxSubscribers
    /\ subscribers' = subscribe(subscribers, callback)
    /\ last' = [op |-> "subscribe", callback |-> callback, before |-> subscribers]
    /\ UNCHANGED <<committed, writer, work, validator, pc, bo, held, seen>>

Unsubscribe(callback) ==
    /\ subscribers' = unsubscribe(subscribers, callback)
    /\ last' = [op |-> "unsubscribe", callback |-> callback, before |-> subscribers]
    /\ UNCHANGED <<committed, writer, work, validator, pc, bo, held, seen>>

Emit(event, data) ==
    /\ Len(subscribers) <= MaxSubscribers
    /\ LET run == emit(subscribers, event, data)
       IN /\ subscribers' = run.subs
          /\ last' = [op |-> "emit", event |-> event, data |-> data,
                      before |-> subscribers, calls |-> run.calls,
                      returned |-> run.returned]
    /\ UNCHANGED <<committed, writer, work, validator, pc, bo, held, seen>>

InitEmit ==
    /\ committed = EmptyDb
    /\ writer = NoConn
    /\ work = EmptyDb
    /\ validator = [c \in Collections |-> FALSE]
    /\ last = NoCall
    /\ pc = [t \in Threads |-> "idle"]
    /\ bo = [t \in Threads |-> NoBulk]
    /\ held = {}
    /\ seen = {}
    /\ subscribers = <<>>

NextEmit ==
    \/ \E callback \in Callbacks \cup {NotCallable} : Subscribe(callback)
    \/ \E callback \in Callbacks : Unsubscribe(callback)
    \/ \E event \in Events, data \in Payloads : Emit(event, data)

SpecEmit == InitEmit /\ [][NextEmit]_vars

(* C27: an emit calls the callbacks that are subscribed when it starts,    *)
(* once per subscription and in subscription order, each with (event,      *)
(* data), whatever the callbacks do to the subscriptions during the emit   *)
(* (calls of callbacks subscribed during the emit may follow); subscribe   *)
(* of a non-callable and unsubscribe of a callback that is not subscribed  *)
(* leave the subscriptions as they are.                                    *)
C27_EmitCallsEverySubscriberOnce ==
    /\ last.op = "emit" =>
          /\ Len(last.calls) >= Len(last.before)
          /\ \A i \in 1..Len(last.before) :
                last.calls[i] = [callback |-> last.before[i],
                                 event |-> last.event, data |-> last.data]
    /\ (last.op = "subscribe" /\ ~callable(last.callback)) =>
          subscribers = last.before
    /\ (last.op = "unsubscribe"
          /\ \A k \in 1..Len(last.before) : last.before[k] # last.callback) =>
          subscribers = last.before

(* C27, the part that holds: without an unsubscribe during the emit the    *)
(* subscribers of its start are called once each, in order                 *)
C27_Subscribing ==
    (/\ last.op = "emit"
     /\ \A i \in 1..Len(last.before) : last.before[i] \notin {"once", "remover"}) =>
        \A i \in 1..Len(last.before) :
           /\ i <= Len(last.calls)
           /\ last.calls[i].callback = last.before[i]

=============================================================================
